---- MODULE Spec2Model ----
(***************************************************************************)
(* Model of the externref post-processor (slowli/externref).               *)
(*                                                                         *)
(* Two machines share this module:                                         *)
(*   - the reference-table machine: the synthesized insert / get / drop    *)
(*     functions of processor/functions.rs executed against the table      *)
(*     (SpecTable);                                                        *)
(*   - the processing pipeline of processor/mod.rs, functions.rs and       *)
(*     state.rs run over a module and its function catalog (SpecProc,      *)
(*     SpecGuard, SpecBody: same actions, different input families).       *)
(***************************************************************************)
EXTENDS Integers, Sequences, FiniteSets, TLC

\* ------------------------------------------------------------------------
\* Bounds
\* ------------------------------------------------------------------------
\* number of distinct non-null host references handed to the module
MaxRef == 2
\* number of elements beyond which the engine refuses table.grow
TableLimit == 3

\* ------------------------------------------------------------------------
\* Values of the table machine
\* ------------------------------------------------------------------------
\* i32.const -1: words are i32 values, MAX_WORD is the word with all bits set
MAX_WORD == -1
\* ref.null
NULL == 0
Refs == 1..MaxRef
RefVals == Refs \cup {NULL}

\* BinaryOp::I32Sub on the words the machine reaches (0 - 1 is MAX_WORD)
I32Sub(a, b) == a - b

\* indices a caller passes to get / drop: every slot that can exist, the
\* first index past the largest table, and the null sentinel
Indices == (0..TableLimit) \cup {MAX_WORD}

VARIABLES
    \* ---- reference-table machine ----
    table,        \* the externrefs table, element 0 of the table is table[1]
    drop_fn_id,   \* "none" or "host": the drop notification import of patch_drop_fn
    pc,           \* position inside the running synthesized function, or "idle"
    op,           \* the current (or last completed) call: [fn, arg]
    value,        \* local `value` of insert
    free_idx,     \* local `free_idx` of insert
    idx,          \* local `idx` of get / drop
    res,          \* outcome of the last completed call: [kind, val]
    pre,          \* the table when the current call started
    notes,        \* values handed to the drop notification during the current call
    chain,        \* what the calls before `op` were: [st, i]
    live,         \* indices insert returned for a reference and drop has not cleared since
    peak,         \* the largest number of non-null slots at the start of a call so far
    iters,        \* iterations of the loop of insert during the current call
    \* ---- processing pipeline ----
    module,       \* the walrus Module: [has_section, imports, exports, funcs, tables, locals]
    functions,    \* the catalog parsed from the custom section (Vec<Function>)
    processor,    \* the Processor options: [table_name, drop_fn_name]
    st,           \* ExternrefImports, PatchedFunctions and the locals of process_functions
    ppc,          \* position of Processor::process
    outcome,      \* result of Processor::process: [kind, err, fn, info]
    input,        \* the module as it was handed to process
    \* ---- reading of the custom section ----
    section,      \* the data of the custom section handed to parse_section
    raw_section,  \* the part of the buffer parse_section has not read yet
    parsed,       \* the local `functions` of parse_section
    rpc,          \* position of parse_section: "off", "reading", "done", "failed"
    result,       \* what parse_section returns: [kind, err, functions]
    origin        \* how the section was made: [kind, src, cut]

tvars == <<table, drop_fn_id, pc, op, value, free_idx, idx, res, pre, notes, chain,
           live, peak, iters>>

pvars == <<module, functions, processor, st, ppc, outcome, input>>

cvars == <<section, raw_section, parsed, rpc, result, origin>>

vars == <<table, drop_fn_id, pc, op, value, free_idx, idx, res, pre, notes, chain,
          live, peak, iters,
          module, functions, processor, st, ppc, outcome, input,
          section, raw_section, parsed, rpc, result, origin>>

NoOp == [fn |-> "none", arg |-> 0]
NoRes == [kind |-> "none", val |-> 0]
Ret(v) == [kind |-> "ret", val |-> v]
Trap == [kind |-> "trap", val |-> 0]

\* ------------------------------------------------------------------------
\* Table instructions (WebAssembly semantics the synthesized code relies on)
\* ------------------------------------------------------------------------
TableSize(t) == Len(t)
\* table accesses compare the index as an unsigned word: MAX_WORD is past any size
InBounds(t, i) == i >= 0 /\ i < Len(t)
TableGet(t, i) == t[i + 1]
TableSet(t, i, v) == [t EXCEPT ![i + 1] = v]
\* table.grow 1: the previous size, or -1 when the engine refuses to grow
TableGrowResult(t) == IF Len(t) + 1 > TableLimit THEN MAX_WORD ELSE Len(t)
TableGrow(t, v) == IF Len(t) + 1 > TableLimit THEN t ELSE Append(t, v)

\* ------------------------------------------------------------------------
\* The driver: which calls preceded the current one
\* ------------------------------------------------------------------------
\* chain.st = "ins":  the call before `op` was insert(r), r non-null, returning chain.i
\* chain.st = "drop": the two calls before `op` were i = insert(r); drop(i)
NoChain == [st |-> "none", i |-> 0]
NextChain ==
    IF op.fn = "insert" /\ op.arg # NULL /\ res.kind = "ret"
    THEN [st |-> "ins", i |-> res.val]
    ELSE IF op.fn = "drop" /\ res.kind = "ret" /\ chain.st = "ins" /\ op.arg = chain.i
    THEN [st |-> "drop", i |-> chain.i]
    ELSE NoChain

\* the handles that are live once the last call has completed
NextLive ==
    IF op.fn = "insert" /\ op.arg # NULL /\ res.kind = "ret" THEN live \cup {res.val}
    ELSE IF op.fn = "drop" /\ res.kind = "ret" THEN live \ {op.arg}
    ELSE live
\* the number of slots holding a reference
NonNull(t) == Cardinality({k \in 1..Len(t) : t[k] # NULL})
NextPeak == IF NonNull(table) > peak THEN NonNull(table) ELSE peak

StartCall(fn, arg) ==
    /\ op' = [fn |-> fn, arg |-> arg]
    /\ pre' = table
    /\ notes' = <<>>
    /\ res' = NoRes
    /\ chain' = NextChain
    /\ live' = NextLive
    /\ peak' = NextPeak
    /\ iters' = 0

Finish(r) ==
    /\ pc' = "idle"
    /\ res' = r

\* ------------------------------------------------------------------------
\* insert (patch_insert_fn)
\* ------------------------------------------------------------------------
CallInsert(r) ==
    /\ pc = "idle"
    /\ StartCall("insert", r)
    /\ value' = r
    /\ free_idx' = 0
    /\ pc' = "ins_null_check"
    /\ UNCHANGED <<table, drop_fn_id, idx>>
    /\ UNCHANGED <<pvars, cvars>>

\* mutant: the null check does not return, the null reference is stored
InsertNullCheck_NoReturn ==
    /\ pc = "ins_null_check"
    /\ pc' = "ins_size_check"
    /\ UNCHANGED <<table, drop_fn_id, op, value, free_idx, idx, res, pre, notes, chain, live, peak, iters>>
    /\ UNCHANGED <<pvars, cvars>>

\* local.get value; ref.is_null; if { i32.const -1; return }
InsertNullCheck ==
    /\ pc = "ins_null_check"
    /\ IF value = NULL
       THEN Finish(Ret(MAX_WORD))
       ELSE pc' = "ins_size_check" /\ UNCHANGED res
    /\ UNCHANGED <<table, drop_fn_id, op, value, free_idx, idx, pre, notes, chain, live, peak, iters>>
    /\ UNCHANGED <<pvars, cvars>>

\* mutant: the last slot is taken without looking at it
InsertSizeCheck_NoLoop ==
    /\ pc = "ins_size_check"
    /\ IF TableSize(table) # 0
       THEN free_idx' = I32Sub(TableSize(table), 1) /\ pc' = "ins_store"
       ELSE free_idx' = free_idx /\ pc' = "ins_store"
    /\ UNCHANGED <<table, drop_fn_id, op, value, idx, res, pre, notes, chain, live, peak, iters>>
    /\ UNCHANGED <<pvars, cvars>>

\* table.size; if { free_idx = table.size - 1; block { loop ... } }
InsertSizeCheck ==
    /\ pc = "ins_size_check"
    /\ IF TableSize(table) # 0
       THEN free_idx' = I32Sub(TableSize(table), 1) /\ pc' = "ins_loop"
       ELSE free_idx' = free_idx /\ pc' = "ins_store"
    /\ UNCHANGED <<table, drop_fn_id, op, value, idx, res, pre, notes, chain, live, peak, iters>>
    /\ UNCHANGED <<pvars, cvars>>

\* mutant: the search gives up at once and asks for growth
InsertLoop_NoScan ==
    /\ pc = "ins_loop"
    /\ free_idx' = TableSize(table)
    /\ pc' = "ins_store"
    /\ UNCHANGED <<table, drop_fn_id, op, value, idx, res, pre, notes, chain, live, peak, iters>>
    /\ UNCHANGED <<pvars, cvars>>

\* mutant: slot 0 is not looked at
InsertLoop_SkipsZero ==
    /\ pc = "ins_loop"
    /\ iters' = iters + 1
    /\ IF free_idx = 0
       THEN free_idx' = TableSize(table) /\ pc' = "ins_store" /\ UNCHANGED res
       ELSE IF ~InBounds(table, free_idx)
       THEN Finish(Trap) /\ UNCHANGED free_idx
       ELSE IF TableGet(table, free_idx) = NULL
       THEN pc' = "ins_store" /\ UNCHANGED <<free_idx, res>>
       ELSE free_idx' = I32Sub(free_idx, 1) /\ pc' = "ins_loop" /\ UNCHANGED res
    /\ UNCHANGED <<table, drop_fn_id, op, value, idx, pre, notes, chain, live, peak>>
    /\ UNCHANGED <<pvars, cvars>>

\* mutant: at slot 0 the loop goes on from table.size instead of leaving
InsertLoop_NoBreak ==
    /\ pc = "ins_loop"
    /\ iters' = iters + 1
    /\ IF ~InBounds(table, free_idx)
       THEN Finish(Trap) /\ UNCHANGED free_idx
       ELSE IF TableGet(table, free_idx) = NULL
       THEN pc' = "ins_store" /\ UNCHANGED <<free_idx, res>>
       ELSE IF free_idx # 0
       THEN free_idx' = I32Sub(free_idx, 1) /\ pc' = "ins_loop" /\ UNCHANGED res
       ELSE free_idx' = TableSize(table) /\ pc' = "ins_loop" /\ UNCHANGED res
    /\ UNCHANGED <<table, drop_fn_id, op, value, idx, pre, notes, chain, live, peak>>
    /\ UNCHANGED <<pvars, cvars>>

\* one iteration of the loop built by create_loop
InsertLoop ==
    /\ pc = "ins_loop"
    /\ iters' = iters + 1
    /\ IF ~InBounds(table, free_idx)
       THEN Finish(Trap) /\ UNCHANGED free_idx
       ELSE IF TableGet(table, free_idx) = NULL
       THEN pc' = "ins_store" /\ UNCHANGED <<free_idx, res>>
       ELSE IF free_idx # 0
       THEN free_idx' = I32Sub(free_idx, 1) /\ pc' = "ins_loop" /\ UNCHANGED res
       ELSE free_idx' = TableSize(table) /\ pc' = "ins_store" /\ UNCHANGED res
    /\ UNCHANGED <<table, drop_fn_id, op, value, idx, pre, notes, chain, live, peak>>
    /\ UNCHANGED <<pvars, cvars>>

\* mutant: after growing, the new size is returned instead of free_idx
InsertStore_ReturnsSize ==
    /\ pc = "ins_store"
    /\ IF free_idx = TableSize(table)
       THEN /\ table' = TableGrow(table, value)
            /\ IF TableGrowResult(table) = MAX_WORD
               THEN Finish(Trap)
               ELSE Finish(Ret(TableSize(table) + 1))
       ELSE IF ~InBounds(table, free_idx)
       THEN Finish(Trap) /\ UNCHANGED table
       ELSE /\ table' = TableSet(table, free_idx, value)
            /\ Finish(Ret(free_idx))
    /\ UNCHANGED <<drop_fn_id, op, value, free_idx, idx, pre, notes, chain, live, peak, iters>>
    /\ UNCHANGED <<pvars, cvars>>

\* free_idx == table.size ? table.grow (unreachable when it fails) : table.set;
\* then local.get free_idx as the result
InsertStore ==
    /\ pc = "ins_store"
    /\ IF free_idx = TableSize(table)
       THEN /\ table' = TableGrow(table, value)
            /\ IF TableGrowResult(table) = MAX_WORD
               THEN Finish(Trap)
               ELSE Finish(Ret(free_idx))
       ELSE IF ~InBounds(table, free_idx)
       THEN Finish(Trap) /\ UNCHANGED table
       ELSE /\ table' = TableSet(table, free_idx, value)
            /\ Finish(Ret(free_idx))
    /\ UNCHANGED <<drop_fn_id, op, value, free_idx, idx, pre, notes, chain, live, peak, iters>>
    /\ UNCHANGED <<pvars, cvars>>

\* ------------------------------------------------------------------------
\* get (patch_get_fn)
\* ------------------------------------------------------------------------
CallGet(i) ==
    /\ pc = "idle"
    /\ StartCall("get", i)
    /\ idx' = i
    /\ pc' = "get_body"
    /\ UNCHANGED <<table, drop_fn_id, value, free_idx>>
    /\ UNCHANGED <<pvars, cvars>>

\* mutant: no test for the null sentinel
GetBody_NoSentinel ==
    /\ pc = "get_body"
    /\ IF ~InBounds(table, idx)
       THEN Finish(Trap)
       ELSE Finish(Ret(TableGet(table, idx)))
    /\ UNCHANGED <<table, drop_fn_id, op, value, free_idx, idx, pre, notes, chain, live, peak, iters>>
    /\ UNCHANGED <<pvars, cvars>>

GetBody ==
    /\ pc = "get_body"
    /\ IF idx = MAX_WORD
       THEN Finish(Ret(NULL))
       ELSE IF ~InBounds(table, idx)
       THEN Finish(Trap)
       ELSE Finish(Ret(TableGet(table, idx)))
    /\ UNCHANGED <<table, drop_fn_id, op, value, free_idx, idx, pre, notes, chain, live, peak, iters>>
    /\ UNCHANGED <<pvars, cvars>>

\* ------------------------------------------------------------------------
\* drop (patch_drop_fn)
\* ------------------------------------------------------------------------
CallDrop(i) ==
    /\ pc = "idle"
    /\ StartCall("drop", i)
    /\ idx' = i
    /\ pc' = IF drop_fn_id # "none" THEN "drop_notify" ELSE "drop_clear"
    /\ UNCHANGED <<table, drop_fn_id, value, free_idx>>
    /\ UNCHANGED <<pvars, cvars>>

\* mutant: the notification gets the cleared slot instead of its content
DropNotify_Null ==
    /\ pc = "drop_notify"
    /\ IF ~InBounds(table, idx)
       THEN Finish(Trap) /\ UNCHANGED notes
       ELSE /\ notes' = Append(notes, NULL)
            /\ pc' = "drop_clear"
            /\ UNCHANGED res
    /\ UNCHANGED <<table, drop_fn_id, op, value, free_idx, idx, pre, chain, live, peak, iters>>
    /\ UNCHANGED <<pvars, cvars>>

\* local.get idx; table.get; call drop_fn_id
DropNotify ==
    /\ pc = "drop_notify"
    /\ IF ~InBounds(table, idx)
       THEN Finish(Trap) /\ UNCHANGED notes
       ELSE /\ notes' = Append(notes, TableGet(table, idx))
            /\ pc' = "drop_clear"
            /\ UNCHANGED res
    /\ UNCHANGED <<table, drop_fn_id, op, value, free_idx, idx, pre, chain, live, peak, iters>>
    /\ UNCHANGED <<pvars, cvars>>

\* mutant: drop returns without clearing the slot
DropClear_Skip ==
    /\ pc = "drop_clear"
    /\ IF ~InBounds(table, idx)
       THEN Finish(Trap)
       ELSE Finish(Ret(0))
    /\ UNCHANGED <<table, drop_fn_id, op, value, free_idx, idx, pre, notes, chain, live, peak, iters>>
    /\ UNCHANGED <<pvars, cvars>>

\* local.get idx; ref.null; table.set
DropClear ==
    /\ pc = "drop_clear"
    /\ IF ~InBounds(table, idx)
       THEN Finish(Trap) /\ UNCHANGED table
       ELSE table' = TableSet(table, idx, NULL) /\ Finish(Ret(0))
    /\ UNCHANGED <<drop_fn_id, op, value, free_idx, idx, pre, notes, chain, live, peak, iters>>
    /\ UNCHANGED <<pvars, cvars>>

\* ------------------------------------------------------------------------
\* Specification of the table machine
\* ------------------------------------------------------------------------
\* the machine before any call, on the table as PatchedFunctions::new creates it
TableIdle ==
    /\ table = <<>>
    /\ pc = "idle"
    /\ op = NoOp
    /\ value = NULL
    /\ free_idx = 0
    /\ idx = 0
    /\ live = {}
    /\ peak = 0
    /\ iters = 0
    /\ res = NoRes
    /\ pre = <<>>
    /\ notes = <<>>
    /\ chain = NoChain

\* the pipeline when no module is being processed
NoModule == [has_section |-> FALSE, imports |-> <<>>, exports |-> <<>>,
             funcs |-> <<>>, tables |-> <<>>, locals |-> 0]

\* no section is being read
NoResult == [kind |-> "none", err |-> "", functions |-> <<>>]
CodecIdle ==
    /\ section = <<>>
    /\ raw_section = <<>>
    /\ parsed = <<>>
    /\ rpc = "off"
    /\ result = NoResult
    /\ origin = [kind |-> "none", src |-> <<>>, cut |-> 0]

ProcIdle ==
    /\ module = NoModule
    /\ functions = <<>>
    /\ processor = [table_name |-> <<"externrefs">>, drop_fn_name |-> <<>>]
    /\ st = <<>>
    /\ ppc = "off"
    /\ outcome = [kind |-> "none", err |-> "", fn |-> 0, info |-> <<>>]
    /\ input = NoModule

InitTable ==
    /\ TableIdle
    /\ drop_fn_id \in {"none", "host"}
    /\ ProcIdle
    /\ CodecIdle

NextTable ==
    \/ \E r \in RefVals : CallInsert(r)
    \/ InsertNullCheck
    \/ InsertSizeCheck
    \/ InsertLoop
    \/ InsertStore
    \/ \E i \in Indices : CallGet(i)
    \/ GetBody
    \/ \E i \in Indices : CallDrop(i)
    \/ DropNotify
    \/ DropClear

SpecTable == InitTable /\ [][NextTable]_vars

\* ------------------------------------------------------------------------
\* Properties of the table machine
\* ------------------------------------------------------------------------
HasNull(t) == \E k \in 1..Len(t) : t[k] = NULL
\* a call of fn has completed (returned or trapped) and nothing ran since
Completed(fn) == pc = "idle" /\ op.fn = fn

\* C2: when the table has a null slot, insert(r) of a non-null r keeps the
\* size, returns an index whose slot was null before the call and holds r
\* afterwards; the table grows only when it had no null slot.
C2_InsertReusesNullSlot ==
    (Completed("insert") /\ op.arg # NULL) =>
        /\ HasNull(pre) =>
              /\ res.kind = "ret"
              /\ Len(table) = Len(pre)
              /\ InBounds(pre, res.val)
              /\ TableGet(pre, res.val) = NULL
              /\ TableGet(table, res.val) = op.arg
        /\ Len(table) > Len(pre) => ~HasNull(pre)

C2_Witness ==
    /\ Completed("insert") /\ op.arg # NULL /\ res.kind = "ret"
    /\ HasNull(pre) /\ Len(pre) = 2 /\ pre[2] # NULL
    /\ res.val = 0 /\ table[1] = op.arg

\* C3: on a table of size n without a null slot (n = 0 included), insert(r)
\* of a non-null r returns n, the size becomes n + 1 and table[n] = r.
C3_InsertGrowsWhenFull ==
    (Completed("insert") /\ op.arg # NULL /\ ~HasNull(pre) /\ Len(pre) < TableLimit) =>
        /\ res = Ret(Len(pre))
        /\ Len(table) = Len(pre) + 1
        /\ TableGet(table, Len(pre)) = op.arg

C3_Witness ==
    /\ Completed("insert") /\ op.arg # NULL /\ ~HasNull(pre)
    /\ Len(pre) = 2 /\ Len(table) = 3 /\ res = Ret(2)

\* C4: insert(null) returns -1 and changes neither the size nor any slot.
C4_InsertNull ==
    /\ (Completed("insert") /\ op.arg = NULL) => (res = Ret(MAX_WORD) /\ table = pre)
    /\ (op.fn = "insert" /\ op.arg = NULL) => table = pre

C4_Witness ==
    /\ Completed("insert") /\ op.arg = NULL /\ res = Ret(MAX_WORD)
    /\ Len(table) = 2 /\ HasNull(table)

\* C5: get(MAX_WORD) is null, get(i) is table[i] for every i in range, and
\* get leaves the table as it was.
C5_Get ==
    /\ Completed("get") =>
          /\ op.arg = MAX_WORD => res = Ret(NULL)
          /\ InBounds(pre, op.arg) => res = Ret(TableGet(pre, op.arg))
    /\ op.fn = "get" => table = pre

C5_Witness ==
    /\ Completed("get") /\ InBounds(pre, op.arg) /\ res.kind = "ret" /\ res.val # NULL

\* C6: with a drop notification configured, drop(i) hands the notification
\* the value slot i held at the call, exactly once and while the slot still
\* holds it; when drop returns the slot is null.
C6_DropNotifiesThenClears ==
    (drop_fn_id # "none" /\ op.fn = "drop") =>
        /\ pc = "drop_notify" => (notes = <<>> /\ table = pre)
        /\ pc = "drop_clear" => (notes = <<TableGet(pre, op.arg)>> /\ table = pre)
        /\ (pc = "idle" /\ InBounds(pre, op.arg)) =>
              /\ res.kind = "ret"
              /\ notes = <<TableGet(pre, op.arg)>>
              /\ TableGet(table, op.arg) = NULL

C6_Witness ==
    /\ drop_fn_id # "none" /\ Completed("drop") /\ res.kind = "ret"
    /\ TableGet(pre, op.arg) # NULL /\ notes = <<TableGet(pre, op.arg)>>
    /\ TableGet(table, op.arg) = NULL

\* C7: i = insert(r); drop(i); j = insert(r2) with non-null r, r2 and no call
\* in between gives j = i, and the second insert does not grow the table.
C7_InsertDropInsert ==
    (Completed("insert") /\ op.arg # NULL /\ chain.st = "drop") =>
        /\ res = Ret(chain.i)
        /\ Len(table) = Len(pre)

C7_Witness ==
    /\ Completed("insert") /\ op.arg # NULL /\ chain.st = "drop"
    /\ res = Ret(chain.i) /\ chain.i = 0 /\ Len(table) = 3 /\ ~HasNull(table)

\* ========================================================================
\* The processing pipeline
\* ========================================================================
\* ------------------------------------------------------------------------
\* Bounds of the processed modules
\* ------------------------------------------------------------------------
\* longest parameter list and result list of a function type
MaxParams == 1
MaxResults == 2
\* most entries a catalog holds
MaxCatalog == 2
\* longest entry instruction sequence / nested block of a function body
MaxEntryLen == 2
MaxNestedLen == 2

\* ------------------------------------------------------------------------
\* Module data (walrus IR)
\* ------------------------------------------------------------------------
I32 == "i32"
EXTERNREF == "externref"
ValTypes == {I32, "i64", EXTERNREF}

\* Function ids, in arena order: the placeholder imports, the catalog import,
\* two local functions, then the functions PatchedFunctions::new adds.
INSERT_ID == 1
GET_ID == 2
DROP_ID == 3
GUARD_ID == 4
IMP_ID == 5
FN_A == 6
FN_B == 7
NEW_INSERT == 8
NEW_GET == 9
DROP_HOOK == 10
NEW_DROP == 11
None == 0

\* instructions
Call(f) == [op |-> "call", arg |-> f]
GlobalSet == [op |-> "global.set", arg |-> 0]
LocalSet(l) == [op |-> "local.set", arg |-> l]
LocalTee(l) == [op |-> "local.tee", arg |-> l]
LocalGet(l) == [op |-> "local.get", arg |-> l]
Other == [op |-> "other", arg |-> 0]
\* a block whose instruction sequence is the function's `nested` sequence
Block == [op |-> "block", arg |-> 0]

\* a function of module.funcs: its type, and for a local function the locals
\* of its parameters (LocalFunction::args) and its instruction sequences
AbsentFn == [kind |-> "Absent", params |-> <<>>, results |-> <<>>, args |-> <<>>,
             entry |-> <<>>, nested |-> <<>>]
ImportFn(params, results) == [kind |-> "Import", params |-> params, results |-> results,
                              args |-> <<>>, entry |-> <<>>, nested |-> <<>>]
LocalFn(params, results, body) == [kind |-> "Local", params |-> params, results |-> results,
                                   args |-> [i \in 1..Len(params) |-> i],
                                   entry |-> body.entry, nested |-> body.nested]
\* the bodies built by patch_insert_fn, patch_get_fn and patch_drop_fn, as far
\* as the visitors of the pipeline can tell them apart
NewInsertFn == LocalFn(<<EXTERNREF>>, <<I32>>, [entry |-> <<Other>>, nested |-> <<>>])
NewGetFn == LocalFn(<<I32>>, <<EXTERNREF>>, [entry |-> <<Other>>, nested |-> <<>>])
NewDropFn(hook) == LocalFn(<<I32>>, <<>>,
    [entry |-> IF hook = None THEN <<Other>> ELSE <<Other, Call(hook), Other>>,
     nested |-> <<>>])

HasBlock(seq) == \E k \in 1..Len(seq) : seq[k].op = "block"
\* the instruction sequences of a body in dfs pre-order
IsLocal(m, f) == m.funcs[f].kind = "Local"
\* module.funcs.iter_local() restricted to the functions of the input module
\* (the three synthesized bodies hold no placeholder call, no guard call and
\* no call followed by a local.set or local.tee)
LocalFns == <<FN_A, FN_B>>

\* ModuleImports::find
RECURSIVE FindFrom(_, _, _, _)
FindFrom(imports, mod, name, k) ==
    IF k > Len(imports) THEN None
    ELSE IF imports[k].module = mod /\ imports[k].name = name THEN k
    ELSE FindFrom(imports, mod, name, k + 1)
FindImport(imports, mod, name) == FindFrom(imports, mod, name, 1)

\* ModuleImports::delete: the slot stays in the arena, the import is gone
DeletedImport == [module |-> "", name |-> "", kind |-> "Deleted", fn |-> None]
DeleteImport(imports, k) == [imports EXCEPT ![k] = DeletedImport]

\* module.exports.iter().find(|export| export.name == name)
RECURSIVE FindExportFrom(_, _, _)
FindExportFrom(exports, name, k) ==
    IF k > Len(exports) THEN None
    ELSE IF exports[k].name = name THEN k
    ELSE FindExportFrom(exports, name, k + 1)
FindExport(exports, name) == FindExportFrom(exports, name, 1)

\* ------------------------------------------------------------------------
\* Processor::process, first steps
\* ------------------------------------------------------------------------
Ok == [kind |-> "ok", err |-> "", fn |-> None, info |-> <<>>]
Err(e, f, info) == [kind |-> "err", err |-> e, fn |-> f, info |-> info]
Panic(f) == [kind |-> "panic", err |-> "", fn |-> f, info |-> <<>>]
Running == [kind |-> "none", err |-> "", fn |-> None, info |-> <<>>]

NoImports == [insert |-> None, get |-> None, drop |-> None, guard |-> None]
InitSt == [imports |-> NoImports, fn_mapping |-> <<>>, get_ref_id |-> None,
           guard_id |-> None, guarded_fns |-> {}, replaced_count |-> 0,
           function_ids |-> <<>>, functions_returning_ref |-> {}, cursor |-> 1]

\* mutant: the processor goes on without the section
ProcessStart_NoReturn ==
    /\ ppc = "start"
    /\ module' = [module EXCEPT !.has_section = FALSE]
    /\ ppc' = "take_imports"
    /\ UNCHANGED outcome
    /\ UNCHANGED <<functions, processor, st, input>>
    /\ UNCHANGED <<tvars, cvars>>

\* customs.remove_raw(CUSTOM_SECTION_NAME); without the section, nothing is done
ProcessStart ==
    /\ ppc = "start"
    /\ IF module.has_section
       THEN /\ module' = [module EXCEPT !.has_section = FALSE]
            /\ ppc' = "take_imports"
            /\ UNCHANGED outcome
       ELSE /\ ppc' = "done"
            /\ outcome' = Ok
            /\ UNCHANGED module
    /\ UNCHANGED <<functions, processor, st, input>>
    /\ UNCHANGED <<tvars, cvars>>

\* mutant: the import found is not deleted
TakeImport_Keep(imports, name) ==
    LET k == FindImport(imports, "externref", name)
    IN  IF k = None THEN [imports |-> imports, id |-> None, err |-> FALSE]
        ELSE IF imports[k].kind = "Function"
        THEN [imports |-> imports, id |-> imports[k].fn, err |-> FALSE]
        ELSE [imports |-> imports, id |-> None, err |-> TRUE]

\* ExternrefImports::take_import
TakeImport(imports, name) ==
    LET k == FindImport(imports, "externref", name)
    IN  IF k = None THEN [imports |-> imports, id |-> None, err |-> FALSE]
        ELSE IF imports[k].kind = "Function"
        THEN [imports |-> DeleteImport(imports, k), id |-> imports[k].fn, err |-> FALSE]
        ELSE [imports |-> imports, id |-> None, err |-> TRUE]

\* ExternrefImports::new: insert, get, drop, guard in this order, stopping at
\* the first placeholder that is not a function
TakeImports ==
    /\ ppc = "take_imports"
    /\ LET t1 == TakeImport(module.imports, "insert")
           t2 == TakeImport(t1.imports, "get")
           t3 == TakeImport(t2.imports, "drop")
           t4 == TakeImport(t3.imports, "guard")
           bad == IF t1.err THEN "insert" ELSE IF t2.err THEN "get"
                  ELSE IF t3.err THEN "drop" ELSE IF t4.err THEN "guard" ELSE ""
           left == IF t1.err THEN t1.imports ELSE IF t2.err THEN t2.imports
                   ELSE IF t3.err THEN t3.imports ELSE t4.imports
       IN  /\ module' = [module EXCEPT !.imports = left]
           /\ IF bad # ""
              THEN /\ ppc' = "failed"
                   /\ outcome' = Err("UnexpectedImportType", None, <<"externref", bad>>)
                   /\ UNCHANGED st
              ELSE /\ ppc' = "patch_imports"
                   /\ st' = [st EXCEPT !.imports = [insert |-> t1.id, get |-> t2.id,
                                                    drop |-> t3.id, guard |-> t4.id]]
                   /\ UNCHANGED outcome
    /\ UNCHANGED <<functions, processor, input>>
    /\ UNCHANGED <<tvars, cvars>>

\* module.exports.add(table_name, table_id) when a table name is configured
TableExport_Always(exports, table_name, table_id) ==
    Append(exports, [name |-> IF table_name # <<>> THEN table_name[1] ELSE "externrefs",
                     kind |-> "Table", item |-> table_id])
TableExport(exports, table_name, table_id) ==
    IF table_name # <<>>
    THEN Append(exports, [name |-> table_name[1], kind |-> "Table", item |-> table_id])
    ELSE exports

\* drop_fn_id: the notification import exists when the drop placeholder was
\* imported and a notification is configured
DropFnId(drop, drop_fn_name) ==
    IF drop # None /\ drop_fn_name # <<>> THEN DROP_HOOK ELSE None

\* PatchedFunctions::new: the table, its export, the three replacements and
\* the drop notification import
PatchImports ==
    /\ ppc = "patch_imports"
    /\ LET imp == st.imports
           table_id == Len(module.tables) + 1
           hook == DropFnId(imp.drop, processor.drop_fn_name)
           funcs1 == [f \in DOMAIN module.funcs |->
                        IF f = imp.insert \/ f = imp.get \/ f = imp.drop
                        THEN [module.funcs[f] EXCEPT !.kind = "Deleted"]
                        ELSE IF f = NEW_INSERT /\ imp.insert # None THEN NewInsertFn
                        ELSE IF f = NEW_GET /\ imp.get # None THEN NewGetFn
                        ELSE IF f = DROP_HOOK /\ hook # None THEN ImportFn(<<EXTERNREF>>, <<>>)
                        ELSE IF f = NEW_DROP /\ imp.drop # None THEN NewDropFn(hook)
                        ELSE module.funcs[f]]
           mapping == [f \in {g \in {imp.insert, imp.get, imp.drop} : g # None} |->
                        IF f = imp.insert THEN NEW_INSERT
                        ELSE IF f = imp.get THEN NEW_GET ELSE NEW_DROP]
       IN  /\ module' = [module EXCEPT
                !.tables = Append(@, [element_ty |-> EXTERNREF, initial |-> 0, maximum |-> <<>>]),
                !.exports = TableExport(@, processor.table_name, table_id),
                !.imports = IF hook # None
                            THEN Append(@, [module |-> processor.drop_fn_name[1],
                                            name |-> processor.drop_fn_name[2],
                                            kind |-> "Function", fn |-> DROP_HOOK])
                            ELSE @,
                !.funcs = funcs1]
           /\ st' = [st EXCEPT !.fn_mapping = mapping,
                               !.get_ref_id = IF imp.get # None THEN NEW_GET ELSE None,
                               !.guard_id = imp.guard,
                               !.cursor = 1]
    /\ ppc' = "replace_calls"
    /\ UNCHANGED <<functions, processor, outcome, input>>
    /\ UNCHANGED <<tvars, cvars>>

\* FunctionsReplacer::visit_function_id_mut over one instruction sequence
ReplaceIn(seq, mapping) ==
    [k \in 1..Len(seq) |->
        IF seq[k].op = "call" /\ seq[k].arg \in DOMAIN mapping
        THEN Call(mapping[seq[k].arg]) ELSE seq[k]]
ReplacedIn(seq, mapping) ==
    Cardinality({k \in 1..Len(seq) : seq[k].op = "call" /\ seq[k].arg \in DOMAIN mapping})

\* GuardPlacement with the derived Ord: None < Correct < Incorrect(offset)
NoPlacement == [rank |-> 0, offset |-> 0]
Correct == [rank |-> 1, offset |-> 0]
Incorrect(o) == [rank |-> 2, offset |-> o]
\* cmp::max of GuardRemover::add_placement
MaxPlacement(a, b) ==
    IF a.rank > b.rank \/ (a.rank = b.rank /\ a.offset > b.offset) THEN a ELSE b

\* bytecode offsets: instruction k of the entry sequence, instruction k of the
\* nested block (the block's instructions lie between those of the entry)
BlockPos(entry) == CHOOSE k \in 1..Len(entry) : entry[k].op = "block"
EntryOffset(fn, k) ==
    IF HasBlock(fn.entry) /\ BlockPos(fn.entry) < k THEN k + Len(fn.nested) ELSE k
NestedOffset(fn, k) == BlockPos(fn.entry) + k

IsGuardCall(instr, guard_id) == instr.op = "call" /\ instr.arg = guard_id

\* the placement the closure of GuardRemover::start_instr_seq_mut computes for
\* instruction k: idx is k - 1, maybe_set_stack_ptr tells whether the
\* instruction before it is a global.set
\* mutant: the sequence is not required to be the entry sequence
PlacementAt_AnySeq(seq, k, is_entry_seq, guard_id, offset) ==
    IF IsGuardCall(seq[k], guard_id)
    THEN IF k = 1 \/ seq[k - 1].op = "global.set"
         THEN Correct
         ELSE Incorrect(offset)
    ELSE NoPlacement
PlacementAt(seq, k, is_entry_seq, guard_id, offset) ==
    IF IsGuardCall(seq[k], guard_id)
    THEN IF is_entry_seq /\ (k = 1 \/ seq[k - 1].op = "global.set")
         THEN Correct
         ELSE Incorrect(offset)
    ELSE NoPlacement

RECURSIVE SeqPlacement(_, _, _, _, _, _)
SeqPlacement(fn, seq, k, is_entry_seq, guard_id, acc) ==
    IF k > Len(seq) THEN acc
    ELSE SeqPlacement(fn, seq, k + 1, is_entry_seq, guard_id,
            MaxPlacement(acc, PlacementAt(seq, k, is_entry_seq, guard_id,
                IF is_entry_seq THEN EntryOffset(fn, k) ELSE NestedOffset(fn, k))))

\* instr_seq.instrs.retain(..): the guard calls go, whatever their placement
\* mutant: the guard calls stay
Retain_All(seq, guard_id) == seq
Retain(seq, guard_id) == SelectSeq(seq, LAMBDA instr : ~IsGuardCall(instr, guard_id))

\* PatchedFunctions::remove_guards: dfs_pre_order_mut runs start_instr_seq_mut
\* on the entry sequence and then on the nested block
RemoveGuards(fn, guard_id) ==
    LET p1 == SeqPlacement(fn, fn.entry, 1, TRUE, guard_id, NoPlacement)
        p2 == IF HasBlock(fn.entry)
              THEN SeqPlacement(fn, fn.nested, 1, FALSE, guard_id, p1)
              ELSE p1
    IN  [fn |-> [fn EXCEPT !.entry = Retain(fn.entry, guard_id),
                           !.nested = IF HasBlock(fn.entry)
                                      THEN Retain(fn.nested, guard_id) ELSE @],
         placement |-> p2]

\* mutant: the guards are verified on the body as it was, and a function with
\* a misplaced guard keeps its calls
ReplaceCallsStep_GuardFirst ==
    /\ ppc = "replace_calls"
    /\ LET f == LocalFns[st.cursor]
           fn == module.funcs[f]
           fn1 == [fn EXCEPT !.entry = ReplaceIn(fn.entry, st.fn_mapping),
                             !.nested = ReplaceIn(fn.nested, st.fn_mapping)]
           count == ReplacedIn(fn.entry, st.fn_mapping) + ReplacedIn(fn.nested, st.fn_mapping)
           rg == IF st.guard_id # None
                 THEN RemoveGuards(fn1, st.guard_id)
                 ELSE [fn |-> fn1, placement |-> NoPlacement]
           last == st.cursor = Len(LocalFns)
       IN  IF fn.kind # "Local"
           THEN /\ st' = [st EXCEPT !.cursor = IF last THEN 1 ELSE @ + 1]
                /\ ppc' = IF last THEN "function_ids" ELSE ppc
                /\ UNCHANGED <<module, outcome>>
           ELSE /\ module' = IF rg.placement.rank = 2 THEN module
                          ELSE [module EXCEPT !.funcs[f] = rg.fn]
                /\ IF rg.placement.rank = 2
                   THEN /\ ppc' = "failed"
                        /\ outcome' = Err("IncorrectGuard", f, <<rg.placement.offset>>)
                        /\ st' = [st EXCEPT !.replaced_count = @ + count]
                   ELSE /\ ppc' = IF last THEN "function_ids" ELSE ppc
                        /\ st' = [st EXCEPT
                              !.replaced_count = @ + count,
                              !.guarded_fns = IF rg.placement.rank = 1 THEN @ \cup {f} ELSE @,
                              !.cursor = IF last THEN 1 ELSE @ + 1]
                        /\ UNCHANGED outcome
    /\ UNCHANGED <<functions, processor, input>>
    /\ UNCHANGED <<tvars, cvars>>

\* one iteration of the loop of PatchedFunctions::replace_calls
ReplaceCallsStep ==
    /\ ppc = "replace_calls"
    /\ LET f == LocalFns[st.cursor]
           fn == module.funcs[f]
           fn1 == [fn EXCEPT !.entry = ReplaceIn(fn.entry, st.fn_mapping),
                             !.nested = ReplaceIn(fn.nested, st.fn_mapping)]
           count == ReplacedIn(fn.entry, st.fn_mapping) + ReplacedIn(fn.nested, st.fn_mapping)
           rg == IF st.guard_id # None
                 THEN RemoveGuards(fn1, st.guard_id)
                 ELSE [fn |-> fn1, placement |-> NoPlacement]
           last == st.cursor = Len(LocalFns)
       IN  IF fn.kind # "Local"
           THEN /\ st' = [st EXCEPT !.cursor = IF last THEN 1 ELSE @ + 1]
                /\ ppc' = IF last THEN "function_ids" ELSE ppc
                /\ UNCHANGED <<module, outcome>>
           ELSE /\ module' = [module EXCEPT !.funcs[f] = rg.fn]
                /\ IF rg.placement.rank = 2
                   THEN /\ ppc' = "failed"
                        /\ outcome' = Err("IncorrectGuard", f, <<rg.placement.offset>>)
                        /\ st' = [st EXCEPT !.replaced_count = @ + count]
                   ELSE /\ ppc' = IF last THEN "function_ids" ELSE ppc
                        /\ st' = [st EXCEPT
                              !.replaced_count = @ + count,
                              !.guarded_fns = IF rg.placement.rank = 1 THEN @ \cup {f} ELSE @,
                              !.cursor = IF last THEN 1 ELSE @ + 1]
                        /\ UNCHANGED outcome
    /\ UNCHANGED <<functions, processor, input>>
    /\ UNCHANGED <<tvars, cvars>>

\* ------------------------------------------------------------------------
\* ProcessingState::process_functions
\* ------------------------------------------------------------------------
\* BitSlice: the model keeps the bits of a slice as a sequence of bit_len booleans
BitLen(bits) == Len(bits)
\* BitSlice::is_set for the indices the processor asks about
IsSet(bits, i) == IF i > Len(bits) THEN FALSE ELSE IF i < Len(bits) THEN bits[i + 1] ELSE FALSE

\* mutant: an import that the module does not have is reported
FunctionId_NoSkip(function, m) ==
    IF function.kind = "Export"
    THEN LET k == FindExport(m.exports, function.name)
         IN  IF k = None THEN [err |-> "NoExport", id |-> None]
             ELSE IF m.exports[k].kind = "Function"
             THEN [err |-> "", id |-> m.exports[k].item]
             ELSE [err |-> "UnexpectedExportType", id |-> None]
    ELSE LET k == FindImport(m.imports, function.module, function.name)
         IN  IF k = None THEN [err |-> "UnexpectedImportType", id |-> None]
             ELSE IF m.imports[k].kind = "Function"
             THEN [err |-> "", id |-> m.imports[k].fn]
             ELSE [err |-> "UnexpectedImportType", id |-> None]

\* ProcessingState::function_id
FunctionId(function, m) ==
    IF function.kind = "Export"
    THEN LET k == FindExport(m.exports, function.name)
         IN  IF k = None THEN [err |-> "NoExport", id |-> None]
             ELSE IF m.exports[k].kind = "Function"
             THEN [err |-> "", id |-> m.exports[k].item]
             ELSE [err |-> "UnexpectedExportType", id |-> None]
    ELSE LET k == FindImport(m.imports, function.module, function.name)
         IN  IF k = None THEN [err |-> "", id |-> None]
             ELSE IF m.imports[k].kind = "Function"
             THEN [err |-> "", id |-> m.imports[k].fn]
             ELSE [err |-> "UnexpectedImportType", id |-> None]

\* mutant: the set of functions returning a reference starts empty
ResolveIds_NoSeed ==
    /\ ppc = "function_ids"
    /\ LET r == [i \in 1..Len(functions) |-> FunctionId(functions[i], module)]
           bad == {i \in 1..Len(functions) : r[i].err # ""}
       IN  IF bad # {}
           THEN LET i == CHOOSE j \in bad : \A k \in bad : j <= k
                IN  /\ ppc' = "failed"
                    /\ outcome' = Err(r[i].err, None, <<functions[i].module, functions[i].name>>)
                    /\ UNCHANGED st
           ELSE /\ st' = [st EXCEPT
                      !.function_ids = [i \in 1..Len(functions) |-> r[i].id],
                      !.functions_returning_ref = {},
                      !.cursor = 1]
                /\ ppc' = IF Len(functions) = 0 THEN "local_fns" ELSE "catalog"
                /\ UNCHANGED outcome
    /\ UNCHANGED <<module, functions, processor, input>>
    /\ UNCHANGED <<tvars, cvars>>

\* functions.iter().map(function_id).collect::<Result<Vec<_>, _>>()
ResolveIds ==
    /\ ppc = "function_ids"
    /\ LET r == [i \in 1..Len(functions) |-> FunctionId(functions[i], module)]
           bad == {i \in 1..Len(functions) : r[i].err # ""}
       IN  IF bad # {}
           THEN LET i == CHOOSE j \in bad : \A k \in bad : j <= k
                IN  /\ ppc' = "failed"
                    /\ outcome' = Err(r[i].err, None, <<functions[i].module, functions[i].name>>)
                    /\ UNCHANGED st
           ELSE /\ st' = [st EXCEPT
                      !.function_ids = [i \in 1..Len(functions) |-> r[i].id],
                      !.functions_returning_ref =
                          IF st.get_ref_id # None THEN {st.get_ref_id} ELSE {},
                      !.cursor = 1]
                /\ ppc' = IF Len(functions) = 0 THEN "local_fns" ELSE "catalog"
                /\ UNCHANGED outcome
    /\ UNCHANGED <<module, functions, processor, input>>
    /\ UNCHANGED <<tvars, cvars>>

TypeAt(params, results, i) ==
    IF i < Len(params) THEN params[i + 1] ELSE results[i - Len(params) + 1]

\* the loop of patch_type_inner over set_indices(), from index i on
RECURSIVE PatchFrom(_, _, _, _)
PatchFrom(function, i, params, results) ==
    IF i >= BitLen(function.externrefs)
    THEN [kind |-> "ok", params |-> params, results |-> results]
    ELSE IF ~IsSet(function.externrefs, i)
    THEN PatchFrom(function, i + 1, params, results)
    ELSE IF TypeAt(params, results, i) # I32
    THEN IF i < Len(params)
         \* location: Arg(i), real_type: new_params[i]
         THEN [kind |-> "err", err |-> "UnexpectedType",
               info |-> <<"Arg", i, params[i + 1]>>]
         \* location: ReturnType(i - len), real_type: new_params[i] is out of bounds
         ELSE [kind |-> "panic"]
    ELSE IF i < Len(params)
    THEN PatchFrom(function, i + 1, [params EXCEPT ![i + 1] = EXTERNREF], results)
    ELSE PatchFrom(function, i + 1, params,
                   [results EXCEPT ![i - Len(params) + 1] = EXTERNREF])

\* mutant: the result types are not patched
PatchTypeInner_ParamsOnly(function, params, results) ==
    IF Len(params) + Len(results) # BitLen(function.externrefs)
    THEN [kind |-> "err", err |-> "UnexpectedArity",
          info |-> <<BitLen(function.externrefs), Len(params) + Len(results)>>]
    ELSE LET r == PatchFrom(function, 0, params, results)
         IN  IF r.kind = "ok" THEN [r EXCEPT !.results = results] ELSE r

\* mutant: a marked position that is a reference already is accepted
PatchTypeInner_Forgiving(function, params, results) ==
    IF Len(params) + Len(results) # BitLen(function.externrefs)
    THEN [kind |-> "err", err |-> "UnexpectedArity",
          info |-> <<BitLen(function.externrefs), Len(params) + Len(results)>>]
    ELSE IF \A i \in 0..(BitLen(function.externrefs) - 1) :
               IsSet(function.externrefs, i) => TypeAt(params, results, i) \in {I32, EXTERNREF}
    THEN [kind |-> "ok",
          params |-> [k \in 1..Len(params) |->
                        IF IsSet(function.externrefs, k - 1) THEN EXTERNREF ELSE params[k]],
          results |-> [k \in 1..Len(results) |->
                         IF IsSet(function.externrefs, Len(params) + k - 1)
                         THEN EXTERNREF ELSE results[k]]]
    ELSE PatchFrom(function, 0, params, results)

PatchTypeInner(function, params, results) ==
    IF Len(params) + Len(results) # BitLen(function.externrefs)
    THEN [kind |-> "err", err |-> "UnexpectedArity",
          info |-> <<BitLen(function.externrefs), Len(params) + Len(results)>>]
    ELSE PatchFrom(function, 0, params, results)

Failure(r, f) == IF r.kind = "panic" THEN Panic(f) ELSE Err(r.err, f, r.info)

\* one iteration of the loop over functions.iter().zip(&function_ids):
\* the returns-reference test, then transform_import for an import
CatalogStep ==
    /\ ppc = "catalog"
    /\ LET i == st.cursor
           function == functions[i]
           fn_id == st.function_ids[i]
           last == i = Len(functions)
           advance == [st EXCEPT !.cursor = IF last THEN 1 ELSE @ + 1]
       IN  IF fn_id = None
           THEN /\ st' = advance
                /\ ppc' = IF last THEN "local_fns" ELSE ppc
                /\ UNCHANGED <<module, outcome>>
           ELSE LET fn == module.funcs[fn_id]
                    results_len == Len(fn.results)
                    refs == function.externrefs
                    \* refs.bit_len() - 1 underflows for an empty slice: a panic when
                    \* overflow checks are compiled in, usize::MAX (not set) otherwise
                    underflow == results_len = 1 /\ BitLen(refs) = 0
                IN  \E checked \in IF underflow THEN BOOLEAN ELSE {FALSE} :
                    IF checked
                    THEN /\ ppc' = "failed"
                         /\ outcome' = Panic(fn_id)
                         /\ UNCHANGED <<module, st>>
                    ELSE LET returns == results_len = 1 /\ ~underflow
                                        /\ IsSet(refs, BitLen(refs) - 1)
                             st1 == [advance EXCEPT !.functions_returning_ref =
                                        IF returns THEN @ \cup {fn_id} ELSE @]
                             r == PatchTypeInner(function, fn.params, fn.results)
                         IN  IF function.kind # "Import"
                             THEN /\ st' = st1
                                  /\ ppc' = IF last THEN "local_fns" ELSE ppc
                                  /\ UNCHANGED <<module, outcome>>
                             ELSE IF r.kind = "ok"
                             THEN /\ module' = [module EXCEPT
                                        !.funcs[fn_id].params = r.params,
                                        !.funcs[fn_id].results = r.results]
                                  /\ st' = st1
                                  /\ ppc' = IF last THEN "local_fns" ELSE ppc
                                  /\ UNCHANGED outcome
                             ELSE /\ ppc' = "failed"
                                  /\ outcome' = Failure(r, fn_id)
                                  /\ st' = [st EXCEPT !.functions_returning_ref =
                                               IF returns THEN @ \cup {fn_id} ELSE @]
                                  /\ UNCHANGED module
    /\ UNCHANGED <<functions, processor, input>>
    /\ UNCHANGED <<tvars, cvars>>

\* ------------------------------------------------------------------------
\* Rewriting of local functions
\* ------------------------------------------------------------------------
\* ids of the locals module.locals.add hands out, after those of the input
LOCAL_BASE == 10
NewLocal(n) == LOCAL_BASE + n

\* RefCallDetector::returns_ref
ReturnsRef(instr, returning) == instr.op = "call" /\ instr.arg \in returning

\* RefCallDetector::start_instr_seq_mut from instruction k on; acc holds the
\* rewritten instructions, the new_locals map (new local, old local), the
\* number of locals added to the module and ref_on_top_of_stack
\* mutant: a redirected local.tee clears ref_on_top_of_stack
RECURSIVE DetectFrom_TeeClears(_, _, _, _)
DetectFrom_TeeClears(seq, k, returning, acc) ==
    IF k > Len(seq) THEN acc
    ELSE LET instr == seq[k]
             new == NewLocal(acc.locals + 1)
         IN  IF instr.op \in {"local.set", "local.tee"} /\ acc.flag
             THEN DetectFrom_TeeClears(seq, k + 1, returning,
                    [instrs |-> Append(acc.instrs, [instr EXCEPT !.arg = new]),
                     new_locals |-> Append(acc.new_locals, <<new, instr.arg>>),
                     locals |-> acc.locals + 1,
                     flag |-> FALSE])
             ELSE DetectFrom_TeeClears(seq, k + 1, returning,
                    [acc EXCEPT !.instrs = Append(@, instr),
                                !.flag = ReturnsRef(instr, returning)])
RECURSIVE DetectFrom(_, _, _, _)
DetectFrom(seq, k, returning, acc) ==
    IF k > Len(seq) THEN acc
    ELSE LET instr == seq[k]
             new == NewLocal(acc.locals + 1)
         IN  IF instr.op = "local.set" /\ acc.flag
             THEN DetectFrom(seq, k + 1, returning,
                    [instrs |-> Append(acc.instrs, LocalSet(new)),
                     new_locals |-> Append(acc.new_locals, <<new, instr.arg>>),
                     locals |-> acc.locals + 1,
                     flag |-> FALSE])
             ELSE IF instr.op = "local.tee" /\ acc.flag
             THEN DetectFrom(seq, k + 1, returning,
                    [instrs |-> Append(acc.instrs, LocalTee(new)),
                     new_locals |-> Append(acc.new_locals, <<new, instr.arg>>),
                     locals |-> acc.locals + 1,
                     flag |-> TRUE])
             ELSE DetectFrom(seq, k + 1, returning,
                    [acc EXCEPT !.instrs = Append(@, instr),
                                !.flag = ReturnsRef(instr, returning)])

\* dfs_pre_order_mut with a RefCallDetector: the entry sequence, then the
\* nested block, each starting with ref_on_top_of_stack = false
DetectCalls(fn, returning, locals) ==
    LET e == DetectFrom(fn.entry, 1, returning,
                [instrs |-> <<>>, new_locals |-> <<>>, locals |-> locals, flag |-> FALSE])
        n == IF HasBlock(fn.entry)
             THEN DetectFrom(fn.nested, 1, returning,
                    [instrs |-> <<>>, new_locals |-> e.new_locals,
                     locals |-> e.locals, flag |-> FALSE])
             ELSE [e EXCEPT !.instrs = fn.nested]
    IN  [fn |-> [fn EXCEPT !.entry = e.instrs, !.nested = n.instrs],
         new_locals |-> n.new_locals,
         locals |-> n.locals]

\* the reference arguments of transform_export: a fresh local for every
\* marked parameter, from parameter i on
RECURSIVE RefArgsFrom(_, _, _)
RefArgsFrom(function, i, acc) ==
    IF i >= BitLen(function.externrefs) THEN acc
    ELSE IF IsSet(function.externrefs, i) /\ i < Len(acc.args)
    THEN RefArgsFrom(function, i + 1,
            [args |-> [acc.args EXCEPT ![i + 1] = NewLocal(acc.locals + 1)],
             locals_mapping |-> Append(acc.locals_mapping,
                                       <<NewLocal(acc.locals + 1), acc.args[i + 1]>>),
             locals |-> acc.locals + 1])
    ELSE RefArgsFrom(function, i + 1, acc)

\* functions_by_id: the last catalog entry resolved to f (0 when there is none)
EntriesOf(ids, f) == {i \in 1..Len(ids) : ids[i] = f}
FunctionsById(ids, f) ==
    IF EntriesOf(ids, f) = {} THEN 0
    ELSE CHOOSE i \in EntriesOf(ids, f) : \A j \in EntriesOf(ids, f) : j <= i

\* LocalReplacementCounter::new: the locals whose mentions are counted are
\* the old locals of new_locals; an argument starts replaced by its new local
OldLocals(new_locals) == {new_locals[k][2] : k \in 1..Len(new_locals)}
IsNewLocal(new_locals, x) == \E k \in 1..Len(new_locals) : new_locals[k][1] = x
OldLocalOf(new_locals, x) ==
    new_locals[CHOOSE k \in 1..Len(new_locals) : new_locals[k][1] = x][2]
\* mutant: an argument does not start replaced by its new local
InitialReplacement_None(new_locals, ref_args) ==
    [l \in OldLocals(new_locals) |-> None]
InitialReplacement(new_locals, ref_args) ==
    [l \in OldLocals(new_locals) |->
        IF \E k \in 1..Len(ref_args) : OldLocalOf(new_locals, ref_args[k]) = l
        THEN ref_args[CHOOSE k \in 1..Len(ref_args) : OldLocalOf(new_locals, ref_args[k]) = l]
        ELSE None]

\* LocalReplacementCounter and LocalReplacer over one instruction sequence,
\* from instruction k on: a local.get of a counted local takes the replacement
\* that is current when the counter visits it; local.set and local.tee of a
\* counted local end the replacement, those of a new local start it
RECURSIVE ReplaceLocalsFrom(_, _, _, _)
ReplaceLocalsFrom(seq, k, new_locals, acc) ==
    IF k > Len(seq) THEN acc
    ELSE LET instr == seq[k]
             l == instr.arg
         IN  IF instr.op = "local.get" /\ l \in DOMAIN acc.current
             THEN ReplaceLocalsFrom(seq, k + 1, new_locals,
                    [acc EXCEPT !.instrs = Append(@,
                        IF acc.current[l] # None THEN LocalGet(acc.current[l]) ELSE instr)])
             ELSE IF instr.op \in {"local.set", "local.tee"} /\ l \in DOMAIN acc.current
             THEN ReplaceLocalsFrom(seq, k + 1, new_locals,
                    [instrs |-> Append(acc.instrs, instr),
                     current |-> [acc.current EXCEPT ![l] = None]])
             ELSE IF instr.op \in {"local.set", "local.tee"} /\ IsNewLocal(new_locals, l)
             THEN ReplaceLocalsFrom(seq, k + 1, new_locals,
                    [instrs |-> Append(acc.instrs, instr),
                     current |-> [acc.current EXCEPT ![OldLocalOf(new_locals, l)] = l]])
             ELSE ReplaceLocalsFrom(seq, k + 1, new_locals,
                    [acc EXCEPT !.instrs = Append(@, instr)])

\* dfs_in_order: the entry sequence up to its block, the nested block, the
\* rest of the entry sequence
ReplaceLocals(fn, new_locals, ref_args) ==
    LET start == [instrs |-> <<>>, current |-> InitialReplacement(new_locals, ref_args)]
        p == IF HasBlock(fn.entry) THEN BlockPos(fn.entry) ELSE Len(fn.entry)
        e1 == ReplaceLocalsFrom(SubSeq(fn.entry, 1, p), 1, new_locals, start)
        n == IF HasBlock(fn.entry)
             THEN ReplaceLocalsFrom(fn.nested, 1, new_locals, [e1 EXCEPT !.instrs = <<>>])
             ELSE [e1 EXCEPT !.instrs = fn.nested]
        e2 == ReplaceLocalsFrom(SubSeq(fn.entry, p + 1, Len(fn.entry)), 1, new_locals,
                                [n EXCEPT !.instrs = e1.instrs])
    IN  [fn EXCEPT !.entry = e2.instrs, !.nested = n.instrs]

\* mutant: the body is rewritten and the type is left as it was
TransformExport_KeepType(m, returning, fn_id, function) ==
    LET fn == m.funcs[fn_id]
        r == PatchTypeInner(function, fn.params, fn.results)
        a == RefArgsFrom(function, 0,
                [args |-> fn.args, locals_mapping |-> <<>>, locals |-> m.locals])
        ref_args == [k \in 1..Len(a.locals_mapping) |-> a.locals_mapping[k][1]]
        d == DetectCalls([fn EXCEPT !.args = a.args], returning, a.locals)
        new_fn == ReplaceLocals(d.fn, d.new_locals \o a.locals_mapping, ref_args)
    IN  IF r.kind # "ok"
        THEN [module |-> m, outcome |-> Failure(r, fn_id)]
        ELSE [module |-> [m EXCEPT !.funcs[fn_id] = new_fn, !.locals = d.locals],
              outcome |-> Running]

\* ProcessingState::transform_export
TransformExport(m, returning, fn_id, function) ==
    LET fn == m.funcs[fn_id]
        r == PatchTypeInner(function, fn.params, fn.results)
        a == RefArgsFrom(function, 0,
                [args |-> fn.args, locals_mapping |-> <<>>, locals |-> m.locals])
        ref_args == [k \in 1..Len(a.locals_mapping) |-> a.locals_mapping[k][1]]
        d == DetectCalls([fn EXCEPT !.args = a.args], returning, a.locals)
        new_fn == ReplaceLocals(d.fn, d.new_locals \o a.locals_mapping, ref_args)
    IN  IF r.kind # "ok"
        THEN [module |-> m, outcome |-> Failure(r, fn_id)]
        ELSE [module |-> [m EXCEPT !.funcs[fn_id] =
                                [new_fn EXCEPT !.params = r.params, !.results = r.results],
                             !.locals = d.locals],
              outcome |-> Running]

\* ProcessingState::transform_local_fn
\* mutant: can_have_locals is not consulted
TransformLocalFn_NoCheck(m, returning, can_have_locals, fn_id) ==
    LET d == DetectCalls(m.funcs[fn_id], returning, m.locals)
    IN  IF d.new_locals = <<>>
        THEN [module |-> m, outcome |-> Running]
        ELSE [module |-> [m EXCEPT !.funcs[fn_id] = ReplaceLocals(d.fn, d.new_locals, <<>>),
                                   !.locals = d.locals],
              outcome |-> Running]
TransformLocalFn(m, returning, can_have_locals, fn_id) ==
    LET d == DetectCalls(m.funcs[fn_id], returning, m.locals)
        m1 == [m EXCEPT !.funcs[fn_id] = d.fn, !.locals = d.locals]
    IN  IF d.new_locals = <<>>
        THEN [module |-> m, outcome |-> Running]
        ELSE IF ~can_have_locals
        THEN [module |-> m1,
              outcome |-> Err("UnexpectedCall", fn_id, <<EntryOffset(m.funcs[fn_id], 1)>>)]
        ELSE [module |-> [m1 EXCEPT !.funcs[fn_id] = ReplaceLocals(d.fn, d.new_locals, <<>>)],
              outcome |-> Running]

\* one iteration of the loop over local_fn_ids
LocalFnStep ==
    /\ ppc = "local_fns"
    /\ LET fn_id == LocalFns[st.cursor]
           last == st.cursor = Len(LocalFns)
           e == FunctionsById(st.function_ids, fn_id)
           t == IF e # 0
                THEN TransformExport(module, st.functions_returning_ref, fn_id, functions[e])
                ELSE TransformLocalFn(module, st.functions_returning_ref,
                                      fn_id \in st.guarded_fns, fn_id)
       IN  IF module.funcs[fn_id].kind # "Local"
           THEN /\ ppc' = IF last THEN "gc" ELSE ppc
                /\ st' = [st EXCEPT !.cursor = IF last THEN 1 ELSE @ + 1]
                /\ UNCHANGED <<module, outcome>>
           ELSE /\ module' = t.module
                /\ IF t.outcome = Running
                   THEN /\ ppc' = IF last THEN "gc" ELSE ppc
                        /\ st' = [st EXCEPT !.cursor = IF last THEN 1 ELSE @ + 1]
                        /\ UNCHANGED outcome
                   ELSE /\ ppc' = "failed"
                        /\ outcome' = t.outcome
                        /\ UNCHANGED st
    /\ UNCHANGED <<functions, processor, input>>
    /\ UNCHANGED <<tvars, cvars>>

\* gc::run(module), then Ok(()): the sweep of the IR library is taken to
\* leave every function that is still in the module as it is
Gc ==
    /\ ppc = "gc"
    /\ ppc' = "done"
    /\ outcome' = Ok
    /\ UNCHANGED <<module, functions, processor, st, input>>
    /\ UNCHANGED <<tvars, cvars>>

NextProc ==
    \/ ProcessStart
    \/ TakeImports
    \/ PatchImports
    \/ ReplaceCallsStep
    \/ ResolveIds
    \/ CatalogStep
    \/ LocalFnStep
    \/ Gc

\* ------------------------------------------------------------------------
\* Input modules
\* ------------------------------------------------------------------------
SeqsUpTo(S, n) == UNION {[1..k -> S] : k \in 0..n}
Sigs == {[params |-> p, results |-> r] :
            p \in SeqsUpTo(ValTypes, MaxParams), r \in SeqsUpTo(ValTypes, MaxResults)}
Sig(p, r) == [params |-> p, results |-> r]

\* catalog entries (Function { kind, name, externrefs })
ImportEntry(mod, name, bits) ==
    [kind |-> "Import", module |-> mod, name |-> name, externrefs |-> bits]
ExportEntry(name, bits) ==
    [kind |-> "Export", module |-> "", name |-> name, externrefs |-> bits]

\* the placeholder imports of the pseudo-module, as crates/lib/src/imports.rs
\* declares them; ph tells for each whether it is absent, a function or
\* another kind of import
Placeholders == <<"insert", "get", "drop", "guard">>
PlaceholderSig(k) ==
    IF k = INSERT_ID \/ k = GET_ID THEN Sig(<<I32>>, <<I32>>)
    ELSE IF k = DROP_ID THEN Sig(<<I32>>, <<>>) ELSE Sig(<<>>, <<>>)
PlaceholderImports(ph) ==
    SelectSeq([k \in 1..4 |-> [module |-> "externref", name |-> Placeholders[k],
                               kind |-> IF ph[Placeholders[k]] = "func"
                                        THEN "Function" ELSE "Other",
                               fn |-> IF ph[Placeholders[k]] = "func" THEN k ELSE None]],
              LAMBDA i : ph[i.name] # "absent")
NoPlaceholders == [insert |-> "absent", get |-> "absent", drop |-> "absent", guard |-> "absent"]

\* a module importing env.imp (a function) and env.mem (a memory), with the
\* local functions A, exported as "exp", and B, exported as "exp2"; env.imp
\* is exported again as "reexp"
ModuleOf(ph, impSig, aSig, bSig, bodyA, bodyB) ==
    [has_section |-> TRUE,
     imports |-> PlaceholderImports(ph) \o
                 <<[module |-> "env", name |-> "imp", kind |-> "Function", fn |-> IMP_ID],
                   [module |-> "env", name |-> "mem", kind |-> "Other", fn |-> None]>>,
     exports |-> <<[name |-> "exp", kind |-> "Function", item |-> FN_A],
                   [name |-> "exp2", kind |-> "Function", item |-> FN_B],
                   [name |-> "reexp", kind |-> "Function", item |-> IMP_ID],
                   [name |-> "mem", kind |-> "Other", item |-> None]>>,
     funcs |-> [f \in 1..NEW_DROP |->
                  IF f \in 1..4
                  THEN IF ph[Placeholders[f]] = "func"
                       THEN ImportFn(PlaceholderSig(f).params, PlaceholderSig(f).results)
                       ELSE AbsentFn
                  ELSE IF f = IMP_ID THEN ImportFn(impSig.params, impSig.results)
                  ELSE IF f = FN_A THEN LocalFn(aSig.params, aSig.results, bodyA)
                  ELSE IF f = FN_B THEN LocalFn(bSig.params, bSig.results, bodyB)
                  ELSE AbsentFn],
     tables |-> <<>>,
     locals |-> 0]

Body(entry, nested) == [entry |-> entry, nested |-> nested]

\* the pipeline at the call of Processor::process
StartOf(m, catalog, options) ==
    /\ module = m
    /\ input = m
    /\ functions = catalog
    /\ processor = options
    /\ st = InitSt
    /\ ppc = "start"
    /\ outcome = Running
    /\ CodecIdle

DefaultProcessor == [table_name |-> <<"externrefs">>, drop_fn_name |-> <<>>]

\* ------------------------------------------------------------------------
\* SpecProc: type patching over every signature and small catalogs
\* ------------------------------------------------------------------------
\* every bit slice of up to MaxParams + MaxResults bits
BitSlices == SeqsUpTo(BOOLEAN, MaxParams + MaxResults)
\* the signature of the functions that catalogs of several entries describe
BasicSig == Sig(<<I32>>, <<I32>>)
\* catalogs of no entry, or of 2 to MaxCatalog entries for env.imp and "exp",
\* each with a bit slice of the length of BasicSig
RepeatedCatalogs ==
    UNION {[1..k -> {ImportEntry("env", "imp", b) :
                        b \in [1..(Len(BasicSig.params) + Len(BasicSig.results)) -> BOOLEAN]}
                    \cup {ExportEntry("exp", b) :
                        b \in [1..(Len(BasicSig.params) + Len(BasicSig.results)) -> BOOLEAN]}] :
           k \in (0..MaxCatalog) \ {1}}

\* env.imp and the export "exp" have the same signature: any signature with a
\* catalog of one entry of any bit slice, or BasicSig with a catalog of
\* several entries
InitProc ==
    /\ TableIdle
    /\ drop_fn_id = "none"
    /\ \/ \E sig \in Sigs, bits \in BitSlices :
             \E entry \in {ImportEntry("env", "imp", bits), ExportEntry("exp", bits),
                           ExportEntry("reexp", bits)} :
                StartOf(ModuleOf(NoPlaceholders, sig, sig, Sig(<<>>, <<>>),
                                 Body(<<Other>>, <<>>), Body(<<Other>>, <<>>)),
                        <<entry>>, DefaultProcessor)
       \/ \E catalog \in RepeatedCatalogs :
             StartOf(ModuleOf(NoPlaceholders, BasicSig, BasicSig, Sig(<<>>, <<>>),
                              Body(<<Other>>, <<>>), Body(<<Other>>, <<>>)),
                     catalog, DefaultProcessor)

SpecProc == InitProc /\ [][NextProc]_vars

\* ------------------------------------------------------------------------
\* Properties of type patching
\* ------------------------------------------------------------------------
Succeeded == ppc = "done" /\ outcome.kind = "ok" /\ Len(st.function_ids) = Len(functions)
Arity(fn) == Len(fn.params) + Len(fn.results)
\* catalog entry i resolved to a function
Resolved(i) == st.function_ids[i] # None
\* entry i is the only entry of the catalog resolved to its function
OnlyEntry(i) == \A j \in 1..Len(functions) : st.function_ids[j] = st.function_ids[i] => j = i
\* entry i is an Import entry, or an Export entry resolved to a local function
ImportOrLocal(i) ==
    functions[i].kind = "Import" \/ input.funcs[st.function_ids[i]].kind = "Local"

\* the claim as stated: for every resolved entry the arity is kept, position p
\* is a reference iff bit p is set, and unmarked positions keep their type
C1_AsStated ==
    Succeeded =>
        \A i \in 1..Len(functions) : Resolved(i) =>
            LET old == input.funcs[st.function_ids[i]]
                new == module.funcs[st.function_ids[i]]
                bits == functions[i].externrefs
            IN  /\ Len(new.params) = Len(old.params)
                /\ Len(new.results) = Len(old.results)
                /\ \A p \in 0..(Arity(old) - 1) :
                      /\ (TypeAt(new.params, new.results, p) = EXTERNREF) <=> IsSet(bits, p)
                      /\ ~IsSet(bits, p) =>
                            TypeAt(new.params, new.results, p) = TypeAt(old.params, old.results, p)

\* C1 (amended): after a successful process, for every Import entry resolved
\* to an imported function and every Export entry resolved to a local
\* function that is the only entry resolved to its function, the signature
\* keeps its arity, every position marked in ref_bits has the reference type
\* and every unmarked position keeps its original type.
C1_TypesPatched ==
    Succeeded =>
        \A i \in 1..Len(functions) : (Resolved(i) /\ OnlyEntry(i) /\ ImportOrLocal(i)) =>
            LET old == input.funcs[st.function_ids[i]]
                new == module.funcs[st.function_ids[i]]
                bits == functions[i].externrefs
            IN  /\ Len(new.params) = Len(old.params)
                /\ Len(new.results) = Len(old.results)
                /\ BitLen(bits) = Arity(old)
                /\ \A p \in 0..(Arity(old) - 1) :
                      /\ IsSet(bits, p) => TypeAt(new.params, new.results, p) = EXTERNREF
                      /\ ~IsSet(bits, p) =>
                            TypeAt(new.params, new.results, p) = TypeAt(old.params, old.results, p)

C1_Witness ==
    /\ Succeeded
    /\ Len(functions) = 1 /\ Resolved(1)
    /\ functions[1].externrefs = <<TRUE, FALSE, TRUE>>
    /\ input.funcs[st.function_ids[1]].results = <<"i64", I32>>
    /\ module.funcs[st.function_ids[1]].params = <<EXTERNREF>>
    /\ module.funcs[st.function_ids[1]].results = <<"i64", EXTERNREF>>

\* ------------------------------------------------------------------------
\* Guard verification
\* ------------------------------------------------------------------------
AllPlaceholders == [insert |-> "func", get |-> "func", drop |-> "func", guard |-> "func"]

\* function bodies: an entry sequence of up to MaxEntryLen instructions with at
\* most one block, whose body has up to MaxNestedLen instructions
OneBlock(seq) == Cardinality({k \in 1..Len(seq) : seq[k].op = "block"}) <= 1
Bodies(ops) ==
    {b \in {Body(e, n) : e \in {x \in SeqsUpTo(ops \cup {Block}, MaxEntryLen) : OneBlock(x)},
                         n \in SeqsUpTo(ops, MaxNestedLen)} :
        HasBlock(b.entry) \/ b.nested = <<>>}

GuardOps == {Call(GUARD_ID), Call(INSERT_ID), GlobalSet, Other}
\* bodies of the second function: without a guard, with a guard in the first
\* position, with a guard in a later position
SmallBodies == {Body(<<Other>>, <<>>), Body(<<Call(GUARD_ID), Other>>, <<>>),
                Body(<<Other, Call(GUARD_ID)>>, <<>>)}

InitGuard ==
    /\ TableIdle
    /\ drop_fn_id = "none"
    /\ \E bodyA \in Bodies(GuardOps), bodyB \in SmallBodies, drop \in {"func", "other"} :
          StartOf(ModuleOf([AllPlaceholders EXCEPT !.drop = drop],
                           Sig(<<>>, <<>>), Sig(<<>>, <<>>), Sig(<<>>, <<>>), bodyA, bodyB),
                  <<ImportEntry("env", "imp", <<>>)>>, DefaultProcessor)

SpecGuard == InitGuard /\ [][NextProc]_vars

\* the guard calls of the input body of f, and those the rule does not accept
GuardIn(seq) == {k \in 1..Len(seq) : seq[k] = Call(GUARD_ID)}
HadGuard(f) == GuardIn(input.funcs[f].entry) # {} \/ GuardIn(input.funcs[f].nested) # {}
Misplaced(f) ==
    \/ \E k \in GuardIn(input.funcs[f].entry) :
          ~(k = 1 \/ input.funcs[f].entry[k - 1] = GlobalSet)
    \/ GuardIn(input.funcs[f].nested) # {}
FnIndex(f) == CHOOSE k \in 1..Len(LocalFns) : LocalFns[k] = f
FnSet == {LocalFns[k] : k \in 1..Len(LocalFns)}
\* guard verification is over: it failed, or the later steps run
GuardsFailed == ppc = "failed" /\ outcome.err = "IncorrectGuard"
GuardsPassed == ppc \in {"function_ids", "catalog", "local_fns", "gc", "done"}

\* the claim as stated: every function with a guard call the rule does not
\* accept is the one MisplacedGuard names
C8_AsStated ==
    (GuardsFailed \/ GuardsPassed) =>
        \A f \in FnSet : Misplaced(f) <=> (GuardsFailed /\ outcome.fn = f)

\* C8 (amended): a guard call is accepted iff it lies in the entry sequence at
\* index 0 or right after a global.set; when some function has a guard call in
\* another position, guard verification fails with MisplacedGuard naming the
\* first such function in module order.
C8_GuardPlacement ==
    /\ GuardsPassed => \A f \in FnSet : ~Misplaced(f)
    /\ GuardsFailed =>
          /\ outcome.fn \in FnSet
          /\ Misplaced(outcome.fn)
          /\ \A g \in FnSet : FnIndex(g) < FnIndex(outcome.fn) => ~Misplaced(g)

\* FN_A has a correct guard and a later misplaced one, FN_B a misplaced one
C8_Witness ==
    /\ GuardsFailed
    /\ outcome.fn = FN_A
    /\ input.funcs[FN_A].entry[1] = Call(GUARD_ID)
    /\ Misplaced(FN_A)
    /\ Misplaced(FN_B)

\* C9: after a successful guard verification no local function body has a
\* call to the guard placeholder, guarded_fns is the set of the local functions
\* that had one, and a function without one is unguarded and has lost no
\* instruction.
C9_GuardsRemoved ==
    GuardsPassed =>
        /\ \A f \in FnSet :
              /\ \A k \in 1..Len(module.funcs[f].entry) :
                    ~IsGuardCall(module.funcs[f].entry[k], GUARD_ID)
              /\ \A k \in 1..Len(module.funcs[f].nested) :
                    ~IsGuardCall(module.funcs[f].nested[k], GUARD_ID)
        /\ st.guarded_fns = {f \in FnSet : HadGuard(f)}
        /\ \A f \in FnSet : ~HadGuard(f) =>
              /\ f \notin st.guarded_fns
              /\ Len(module.funcs[f].entry) = Len(input.funcs[f].entry)
              /\ Len(module.funcs[f].nested) = Len(input.funcs[f].nested)
              /\ \A k \in 1..Len(input.funcs[f].entry) :
                    module.funcs[f].entry[k].op = input.funcs[f].entry[k].op
              /\ \A k \in 1..Len(input.funcs[f].nested) :
                    module.funcs[f].nested[k].op = input.funcs[f].nested[k].op

C9_Witness ==
    /\ ppc = "done"
    /\ input.funcs[FN_A].entry = <<GlobalSet, Call(GUARD_ID)>>
    /\ module.funcs[FN_A].entry = <<GlobalSet>>
    /\ st.guarded_fns = {FN_A}
    /\ module.funcs[FN_B].entry = <<Other>>

\* ------------------------------------------------------------------------
\* Calls to functions returning a reference
\* ------------------------------------------------------------------------
CallOps == {Call(IMP_ID), LocalSet(1), LocalTee(1), Call(GUARD_ID), Other}

\* env.imp returns one i32 which its catalog entry marks, or does not mark, as
\* a reference; FN_B has a catalog entry or none; FN_A has a guard the rule
\* accepts or one it does not
InitBody ==
    /\ TableIdle
    /\ drop_fn_id = "none"
    /\ \E bodyB \in Bodies(CallOps),
          bodyA \in {Body(<<Other>>, <<>>), Body(<<Other, Call(GUARD_ID)>>, <<>>)},
          marked \in BOOLEAN,
          more \in {<<>>, <<ExportEntry("exp2", <<>>)>>} :
          StartOf(ModuleOf(AllPlaceholders,
                           Sig(<<>>, <<I32>>), Sig(<<>>, <<>>), Sig(<<>>, <<>>), bodyA, bodyB),
                  <<ImportEntry("env", "imp", <<marked>>)>> \o more, DefaultProcessor)

SpecBody == InitBody /\ [][NextProc]_vars

\* the catalog has an entry for the export of local function f
InCatalog(f) ==
    \E i \in 1..Len(functions) :
        /\ functions[i].kind = "Export"
        /\ \E k \in 1..Len(input.exports) :
              /\ input.exports[k].name = functions[i].name
              /\ input.exports[k].kind = "Function"
              /\ input.exports[k].item = f
\* g is an import whose catalog entry marks its only result as a reference
MarkedResult(g) ==
    \E i \in 1..Len(functions) :
        /\ functions[i].kind = "Import"
        /\ \E k \in 1..Len(input.imports) :
              /\ input.imports[k].module = functions[i].module
              /\ input.imports[k].name = functions[i].name
              /\ input.imports[k].fn = g
        /\ Len(input.funcs[g].results) = 1
        /\ BitLen(functions[i].externrefs) = Len(input.funcs[g].params) + 1
        /\ functions[i].externrefs[BitLen(functions[i].externrefs)]
RefCall(instr) == instr.op = "call" /\ MarkedResult(instr.arg)
CallsRef(seq) == \E k \in 1..Len(seq) : RefCall(seq[k])
\* a call whose result the next instruction stores in a local
StoresRef(seq) ==
    \E k \in 1..(Len(seq) - 1) :
        RefCall(seq[k]) /\ seq[k + 1].op \in {"local.set", "local.tee"}
Finished == ppc \in {"done", "failed"}

\* the claim as stated: an unguarded function outside the catalog with a call
\* to a function with a marked result makes processing fail with
\* UnexpectedReferenceCall
C10_AsStated ==
    \A f \in FnSet :
        (/\ Finished
         /\ ~HadGuard(f) /\ ~InCatalog(f)
         /\ CallsRef(input.funcs[f].entry) \/ CallsRef(input.funcs[f].nested)
         /\ \A g \in FnSet : ~Misplaced(g))
        => (ppc = "failed" /\ outcome.err = "UnexpectedCall")

\* C10 (amended): when an unguarded local function outside the catalog has a
\* call to a function with a marked result that is immediately followed by
\* local.set or local.tee, processing does not succeed, and unless an earlier
\* step has failed it fails with UnexpectedReferenceCall for that function.
C10_UnexpectedCall ==
    \A f \in FnSet :
        (/\ Finished
         /\ ~HadGuard(f) /\ ~InCatalog(f)
         /\ StoresRef(input.funcs[f].entry) \/ StoresRef(input.funcs[f].nested))
        => /\ ppc = "failed"
           /\ (\A g \in FnSet : ~Misplaced(g)) =>
                 (outcome.kind = "err" /\ outcome.err = "UnexpectedCall" /\ outcome.fn = f)

C10_Witness ==
    /\ ppc = "failed"
    /\ outcome.err = "UnexpectedCall"
    /\ outcome.fn = FN_B
    /\ ~HadGuard(FN_B) /\ ~InCatalog(FN_B)
    /\ input.funcs[FN_B].entry = <<Other, Block>>
    /\ input.funcs[FN_B].nested = <<Call(IMP_ID), LocalTee(1)>>

\* ------------------------------------------------------------------------
\* Rewriting of local.get
\* ------------------------------------------------------------------------
\* longest body without a block
MaxFlatLen == 4

LocalOps == {Call(IMP_ID), LocalSet(1), LocalTee(1), LocalGet(1), Other}
LocalBodies ==
    {Body(e, <<>>) : e \in SeqsUpTo(LocalOps, MaxFlatLen)} \cup Bodies(LocalOps)

\* env.imp returns a reference; FN_A takes one i32, its local 1, which its
\* catalog entry marks or does not mark; FN_B has the same body behind a guard,
\* where local 1 is not a parameter
InitLocals ==
    /\ TableIdle
    /\ drop_fn_id = "none"
    /\ \E b \in LocalBodies, marked \in BOOLEAN :
          StartOf(ModuleOf(AllPlaceholders,
                           Sig(<<>>, <<I32>>), Sig(<<I32>>, <<>>), Sig(<<>>, <<>>),
                           b, Body(<<Call(GUARD_ID)>> \o b.entry, b.nested)),
                  <<ImportEntry("env", "imp", <<TRUE>>), ExportEntry("exp", <<marked>>)>>,
                  DefaultProcessor)

SpecLocals == InitLocals /\ [][NextProc]_vars

IsStore(instr) == instr.op \in {"local.set", "local.tee"}
\* instruction k of seq stores the result of a reference-producing call: it
\* follows the call, or a local.tee that stores it
RECURSIVE RefStoreAt(_, _)
RefStoreAt(seq, k) ==
    /\ IsStore(seq[k])
    /\ k > 1
    /\ \/ RefCall(seq[k - 1])
       \/ seq[k - 1].op = "local.tee" /\ RefStoreAt(seq, k - 1)
WithRefs(seq) == [k \in 1..Len(seq) |-> [instr |-> seq[k], ref |-> RefStoreAt(seq, k)]]
\* the instructions of a function in textual order
Textual(fn) ==
    IF HasBlock(fn.entry)
    THEN SubSeq(WithRefs(fn.entry), 1, BlockPos(fn.entry)) \o WithRefs(fn.nested)
         \o SubSeq(WithRefs(fn.entry), BlockPos(fn.entry) + 1, Len(fn.entry))
    ELSE WithRefs(fn.entry)
WithoutGuards(fn) ==
    [fn EXCEPT !.entry = SelectSeq(@, LAMBDA i : i # Call(GUARD_ID)),
               !.nested = SelectSeq(@, LAMBDA i : i # Call(GUARD_ID))]
\* the last store to local l before position k (0 when there is none)
LastStore(text, k, l) ==
    LET S == {j \in 1..(k - 1) : IsStore(text[j].instr) /\ text[j].instr.arg = l}
    IN  IF S = {} THEN 0 ELSE CHOOSE j \in S : \A i \in S : i <= j
\* the parameters of f that its catalog entry marks
MarkedParams(f) ==
    {i \in 1..Len(input.funcs[f].args) :
        \E e \in 1..Len(functions) :
            /\ functions[e].kind = "Export"
            /\ \E x \in 1..Len(input.exports) :
                  /\ input.exports[x].name = functions[e].name
                  /\ input.exports[x].item = f
            /\ IsSet(functions[e].externrefs, i - 1)}
IsNew(l) == l > LOCAL_BASE
RefStores(text) == {j \in 1..Len(text) : text[j].ref}

\* C11: in a rewritten function every local.get of local l reads the new
\* local of the textually last store to l when that store takes the result of
\* a reference-producing call, the fresh parameter local when l is a marked
\* parameter not stored to yet, and l itself otherwise; every such store and
\* every marked parameter has a new local of its own and no other is added.
C11_LocalReads ==
    (ppc = "done" /\ outcome.kind = "ok") =>
        /\ \A f \in FnSet :
              LET old == Textual(WithoutGuards(input.funcs[f]))
                  new == Textual(module.funcs[f])
                  args == module.funcs[f].args
              IN  /\ Len(new) = Len(old)
                  /\ \A k \in 1..Len(old) :
                        LET l == old[k].instr.arg
                            j == LastStore(old, k, l)
                        IN  /\ old[k].instr.op = "local.get" =>
                                 IF j # 0
                                 THEN IF old[j].ref
                                      THEN new[k].instr = LocalGet(new[j].instr.arg)
                                      ELSE new[k].instr = LocalGet(l)
                                 ELSE IF \E i \in MarkedParams(f) : input.funcs[f].args[i] = l
                                 THEN \E i \in MarkedParams(f) :
                                         /\ input.funcs[f].args[i] = l
                                         /\ new[k].instr = LocalGet(args[i])
                                 ELSE new[k].instr = LocalGet(l)
                            /\ IsStore(old[k].instr) =>
                                 /\ new[k].instr.op = old[k].instr.op
                                 /\ IF old[k].ref THEN IsNew(new[k].instr.arg)
                                    ELSE new[k].instr.arg = l
                  /\ \A i \in 1..Len(args) : IsNew(args[i]) <=> i \in MarkedParams(f)
                  /\ Cardinality({new[j].instr.arg : j \in RefStores(old)}
                                 \cup {args[i] : i \in MarkedParams(f)})
                        = Cardinality(RefStores(old)) + Cardinality(MarkedParams(f))
        /\ module.locals =
              Cardinality(RefStores(Textual(WithoutGuards(input.funcs[FN_A]))))
              + Cardinality(MarkedParams(FN_A))
              + Cardinality(RefStores(Textual(WithoutGuards(input.funcs[FN_B]))))
              + Cardinality(MarkedParams(FN_B))

\* 'store the call's result into local 1; store an integer into local 1; read
\* local 1' in the guarded function: one new local, not used by the read
C11_Witness ==
    /\ ppc = "done" /\ outcome.kind = "ok"
    /\ MarkedParams(FN_A) = {1}
    /\ input.funcs[FN_B].entry =
          <<Call(GUARD_ID), Call(IMP_ID), LocalSet(1), LocalSet(1), LocalGet(1)>>
    /\ \E n \in {l \in (LOCAL_BASE + 1)..(LOCAL_BASE + module.locals) : TRUE} :
          module.funcs[FN_B].entry = <<Call(IMP_ID), LocalSet(n), LocalSet(1), LocalGet(1)>>
    /\ module.funcs[FN_A].entry[4] = LocalGet(1)
    /\ module.funcs[FN_A].args # <<1>>

\* ------------------------------------------------------------------------
\* Processor options, placeholder imports and the reference table
\* ------------------------------------------------------------------------
PlaceholderChoices == [{"insert", "get", "drop", "guard"} -> {"absent", "func", "other"}]
\* a body that calls the guard and the placeholders that are function imports
CallsOf(ph) ==
    SelectSeq(<<Call(GUARD_ID), Call(INSERT_ID), Call(GET_ID), Call(DROP_ID)>>,
              LAMBDA i : ph[Placeholders[i.arg]] = "func") \o <<Other>>
\* imports that are not placeholders: another name of the pseudo-module, a
\* placeholder name of another module
OtherImports ==
    <<[module |-> "externref", name |-> "memory", kind |-> "Other", fn |-> None],
      [module |-> "env", name |-> "drop", kind |-> "Other", fn |-> None]>>
FuncTable == [element_ty |-> "funcref", initial |-> 0, maximum |-> <<>>]

\* modules with and without the custom section, with every choice of the
\* placeholder imports, processed with and without a table name and a drop
\* notification
InitOptions ==
    /\ TableIdle
    /\ drop_fn_id = "none"
    /\ \E ph \in PlaceholderChoices, has_section \in BOOLEAN,
          table_name \in {<<"externrefs">>, <<"refs">>, <<>>},
          drop_fn_name \in {<<>>, <<"hook", "drop_ref">>},
          tables \in {<<>>, <<FuncTable>>} :
          LET m == ModuleOf(ph, Sig(<<>>, <<>>), Sig(<<>>, <<>>), Sig(<<>>, <<>>),
                            Body(CallsOf(ph), <<>>), Body(<<Other>>, <<>>))
          IN  StartOf([m EXCEPT !.has_section = has_section,
                                !.imports = @ \o OtherImports,
                                !.tables = tables],
                      IF has_section THEN <<ImportEntry("env", "imp", <<>>)>> ELSE <<>>,
                      [table_name |-> table_name, drop_fn_name |-> drop_fn_name])

SpecOptions == InitOptions /\ [][NextProc]_vars

\* C12: without the custom section process returns Ok and the module stays as
\* it was: tables, imports, exports, function types and bodies.
C12_NoSection ==
    ~input.has_section =>
        /\ module = input
        /\ ppc \in {"start", "done"}
        /\ ppc = "done" => outcome = Ok

C12_Witness ==
    /\ ~input.has_section
    /\ ppc = "done"
    /\ \E k \in 1..Len(module.imports) :
          module.imports[k].module = "externref" /\ module.imports[k].name = "insert"
             /\ module.imports[k].kind = "Function"
    /\ processor.drop_fn_name # <<>>

\* PatchedFunctions::new has run
Patched == ppc \in {"replace_calls", "function_ids", "catalog", "local_fns", "gc", "done"}
               \/ (ppc = "failed" /\ outcome.err # "UnexpectedImportType")
TableExports(m) == {k \in 1..Len(m.exports) : m.exports[k].kind = "Table"}

AddedImports == {k \in 1..Len(module.imports) : k > Len(input.imports)}
IsDropHook(k) ==
    /\ processor.drop_fn_name # <<>>
    /\ module.imports[k].module = processor.drop_fn_name[1]
    /\ module.imports[k].name = processor.drop_fn_name[2]
    /\ module.imports[k].kind = "Function"
    /\ module.funcs[module.imports[k].fn] = ImportFn(<<EXTERNREF>>, <<>>)
ImportsDrop ==
    \E k \in 1..Len(input.imports) :
        /\ input.imports[k].module = "externref"
        /\ input.imports[k].name = "drop"
        /\ input.imports[k].kind = "Function"

\* C14, as stated: with a drop notification (module, name) configured, every
\* module with the custom section gets the function import (module, name) of
\* type (ref) -> (); without it no import is added.
C14_AsStated ==
    (input.has_section /\ Patched) =>
        IF processor.drop_fn_name # <<>>
        THEN \E k \in AddedImports : IsDropHook(k)
        ELSE AddedImports = {}

\* what PatchedFunctions::new does: the import is added for a module that
\* imports the drop placeholder, and for no other
DropHookAdded ==
    (input.has_section /\ Patched) =>
        IF processor.drop_fn_name # <<>> /\ ImportsDrop
        THEN Cardinality(AddedImports) = 1 /\ \A k \in AddedImports : IsDropHook(k)
        ELSE AddedImports = {}

C14_Witness ==
    /\ ppc = "done"
    /\ input.has_section
    /\ ImportsDrop
    /\ \E k \in AddedImports :
          /\ IsDropHook(k)
          /\ module.imports[k].module = "hook"
          /\ module.imports[k].name = "drop_ref"

\* the placeholder imports of the input that are functions, the other imports
IsPlaceholder(i) ==
    i.module = "externref" /\ i.name \in {"insert", "get", "drop", "guard"}
BadPlaceholders ==
    {k \in 1..Len(input.imports) :
        IsPlaceholder(input.imports[k]) /\ input.imports[k].kind # "Function"}
\* the id of the placeholder import called name in the input (None without it)
InputId(name) ==
    IF \E k \in 1..Len(input.imports) :
          input.imports[k].module = "externref" /\ input.imports[k].name = name
    THEN input.imports[CHOOSE k \in 1..Len(input.imports) :
          input.imports[k].module = "externref" /\ input.imports[k].name = name].fn
    ELSE None
Taken == ppc \notin {"start", "take_imports"} /\ input.has_section

\* C18: the registry deletes the function imports insert, get, drop and guard
\* of the pseudo-module and returns their ids, None for those that are absent;
\* every other import stays; when a placeholder name is bound to an import
\* that is not a function, it fails with UnexpectedImportKind carrying the
\* pseudo-module and such a name.
C18_Registry ==
    Taken =>
        IF BadPlaceholders = {}
        THEN /\ ~(ppc = "failed" /\ outcome.err = "UnexpectedImportType")
             /\ st.imports = [insert |-> InputId("insert"), get |-> InputId("get"),
                              drop |-> InputId("drop"), guard |-> InputId("guard")]
             /\ \A k \in 1..Len(input.imports) :
                   IF IsPlaceholder(input.imports[k])
                   THEN module.imports[k] = DeletedImport
                   ELSE module.imports[k] = input.imports[k]
        ELSE /\ ppc = "failed"
             /\ outcome.kind = "err"
             /\ outcome.err = "UnexpectedImportType"
             /\ \E k \in BadPlaceholders :
                   outcome.info = <<input.imports[k].module, input.imports[k].name>>
             /\ \A k \in 1..Len(input.imports) :
                   ~IsPlaceholder(input.imports[k]) => module.imports[k] = input.imports[k]

\* insert and guard are taken, get and drop are absent
C18_Witness ==
    /\ ppc = "done"
    /\ input.has_section
    /\ st.imports = [insert |-> INSERT_ID, get |-> None, drop |-> None, guard |-> GUARD_ID]
    /\ \E k \in 1..Len(input.imports) :
          input.imports[k].name = "insert" /\ module.imports[k] = DeletedImport
    /\ \E k \in 1..Len(module.imports) :
          module.imports[k].module = "externref" /\ module.imports[k].name = "memory"

\* ------------------------------------------------------------------------
\* Resolution of catalog entries
\* ------------------------------------------------------------------------
\* entries for the imports and exports of the module, for names it does not
\* have, and for the memory it imports and exports
ResolveEntries ==
    {ImportEntry("env", "imp", <<TRUE>>), ImportEntry("env", "gone", <<TRUE>>),
     ImportEntry("env", "mem", <<>>), ExportEntry("exp", <<TRUE>>),
     ExportEntry("gone", <<FALSE>>), ExportEntry("mem", <<>>), ExportEntry("exp2", <<>>)}
\* catalogs of 1 to MaxCatalog different entries
ResolveCatalogs ==
    {c \in SeqsUpTo(ResolveEntries, MaxCatalog) :
        Len(c) > 0 /\ \A i, j \in 1..Len(c) : c[i] = c[j] => i = j}

InitResolve ==
    /\ TableIdle
    /\ drop_fn_id = "none"
    /\ \E c \in ResolveCatalogs :
          StartOf(ModuleOf(NoPlaceholders, Sig(<<I32>>, <<>>), Sig(<<I32>>, <<>>), Sig(<<>>, <<>>),
                           Body(<<Other>>, <<>>), Body(<<Other>>, <<>>)),
                  c, DefaultProcessor)

SpecResolve == InitResolve /\ [][NextProc]_vars

\* what the input module has under a name: "none", "Function" or "Other"
ExportKind(name) ==
    LET S == {k \in 1..Len(input.exports) : input.exports[k].name = name}
    IN  IF S = {} THEN "none" ELSE input.exports[CHOOSE k \in S : \A j \in S : k <= j].kind
ImportKind(mod, name) ==
    LET S == {k \in 1..Len(input.imports) :
                 input.imports[k].module = mod /\ input.imports[k].name = name}
    IN  IF S = {} THEN "none" ELSE input.imports[CHOOSE k \in S : \A j \in S : k <= j].kind
\* the error the entry is to give, "" for none
EntryError(e) ==
    IF e.kind = "Export"
    THEN CASE ExportKind(e.name) = "none" -> "NoExport"
           [] ExportKind(e.name) = "Function" -> ""
           [] OTHER -> "UnexpectedExportType"
    ELSE CASE ImportKind(e.module, e.name) \in {"none", "Function"} -> ""
           [] OTHER -> "UnexpectedImportType"
Skipped(e) == e.kind = "Import" /\ ImportKind(e.module, e.name) = "none"
FailingEntries == {i \in 1..Len(functions) : EntryError(functions[i]) # ""}
PastResolution == ppc \in {"catalog", "local_fns", "gc", "done", "failed"}

\* C15: an Export entry whose name is not exported gives MissingExport(name),
\* one naming an export that is not a function UnexpectedExportKind(name), an
\* Import entry naming an import that is not a function UnexpectedImportKind;
\* an Import entry that the module does not import is skipped, and the
\* entries after it are applied.
C15_Resolution ==
    PastResolution =>
        IF FailingEntries # {}
        THEN /\ ppc = "failed"
             /\ outcome.kind = "err"
             /\ \E i \in FailingEntries :
                   /\ \A j \in FailingEntries : i <= j
                   /\ outcome.err = EntryError(functions[i])
                   /\ outcome.info = <<functions[i].module, functions[i].name>>
        ELSE /\ ppc # "failed"
             /\ \A i \in 1..Len(functions) :
                   Skipped(functions[i]) <=> st.function_ids[i] = None
             /\ ppc = "done" =>
                   /\ outcome = Ok
                   /\ \A i \in 1..Len(functions) :
                         (~Skipped(functions[i]) /\ functions[i].externrefs = <<TRUE>>)
                            => module.funcs[st.function_ids[i]].params = <<EXTERNREF>>

\* a skipped import, then an export that is applied
C15_Witness ==
    /\ ppc = "done"
    /\ Len(functions) = 2
    /\ Skipped(functions[1])
    /\ functions[2] = ExportEntry("exp", <<TRUE>>)
    /\ module.funcs[FN_A].params = <<EXTERNREF>>
    /\ input.funcs[FN_A].params = <<I32>>

\* ------------------------------------------------------------------------
\* Arity and type errors of a catalog entry
\* ------------------------------------------------------------------------
\* process has ended for a catalog of one entry, resolved to an imported
\* function by an Import entry or to a local function by an Export entry
EndedSingle ==
    /\ ppc \in {"done", "failed"}
    /\ Len(functions) = 1
    /\ Len(st.function_ids) = 1
    /\ Resolved(1)
    /\ ImportOrLocal(1)
EntrySig == input.funcs[st.function_ids[1]]
\* the first marked position of the entry whose type is not i32
BadPositions ==
    {i \in 0..(BitLen(functions[1].externrefs) - 1) :
        functions[1].externrefs[i + 1]
           /\ TypeAt(EntrySig.params, EntrySig.results, i) # I32}
FirstBad == CHOOSE i \in BadPositions : \A j \in BadPositions : i <= j

\* C16, as stated: an entry whose bit_len differs from |params| + |results| of
\* its function gives ArityMismatch with expected = bit_len and observed =
\* |params| + |results|, for every bit_len, 0 included.
C16_AsStated ==
    (EndedSingle /\ Arity(EntrySig) # BitLen(functions[1].externrefs)) =>
        /\ ppc = "failed"
        /\ outcome.kind = "err"
        /\ outcome.err = "UnexpectedArity"
        /\ outcome.info = <<BitLen(functions[1].externrefs), Arity(EntrySig)>>

\* C17, as stated: a marked position whose type is not i32 gives
\* UnexpectedArgumentType with the location Arg(i) of a parameter or Result(j)
\* of a result and the type found there.
C17_AsStated ==
    (EndedSingle /\ Arity(EntrySig) = BitLen(functions[1].externrefs) /\ BadPositions # {}) =>
        /\ ppc = "failed"
        /\ outcome.kind = "err"
        /\ outcome.err = "UnexpectedType"
        /\ outcome.info =
              IF FirstBad < Len(EntrySig.params)
              THEN <<"Arg", FirstBad, EntrySig.params[FirstBad + 1]>>
              ELSE <<"ReturnType", FirstBad - Len(EntrySig.params),
                     EntrySig.results[FirstBad - Len(EntrySig.params) + 1]>>

\* ------------------------------------------------------------------------
\* The custom section: Function::custom_section and Processor::parse_section
\* ------------------------------------------------------------------------
\* A byte is a number of 0..255, a buffer a sequence of bytes. A u32 is kept as
\* a signed number, as the words of the table are: 2^32 - 1 is -1, and a
\* negative number stands for a length of 2^31 or more.
MaxNameLen == 2
MaxBitLen == 2
MaxSection == 2

\* write_u32!
WriteU32(v) ==
    <<v % 256, (v \div 256) % 256, (v \div 65536) % 256, (v \div 16777216) % 256>>
\* mutant: the most significant byte is read first
FromLeBytes_BigEndian(b) ==
    b[4] + 256 * b[3] + 65536 * b[2] + 16777216 * (IF b[1] >= 128 THEN b[1] - 256 ELSE b[1])
\* u32::from_le_bytes
FromLeBytes(b) ==
    b[1] + 256 * b[2] + 65536 * b[3] + 16777216 * (IF b[4] >= 128 THEN b[4] - 256 ELSE b[4])
\* buffer.len() < len, for a length read from the buffer
Shorter(buffer, len) == len < 0 \/ Len(buffer) < len
Drop(buffer, n) == SubSeq(buffer, n + 1, Len(buffer))

\* str::from_utf8 accepts the bytes from index i on
IsCont(b) == b >= 128 /\ b <= 191
RECURSIVE Utf8From(_, _)
Utf8From(b, i) ==
    LET has(k) == i + k <= Len(b)
        c == b[i]
    IN  IF i > Len(b) THEN TRUE
        ELSE IF c < 128 THEN Utf8From(b, i + 1)
        ELSE IF c >= 194 /\ c <= 223
        THEN has(1) /\ IsCont(b[i + 1]) /\ Utf8From(b, i + 2)
        ELSE IF c >= 224 /\ c <= 239
        THEN /\ has(2)
             /\ IsCont(b[i + 1])
             /\ c = 224 => b[i + 1] >= 160
             /\ c = 237 => b[i + 1] <= 159
             /\ IsCont(b[i + 2])
             /\ Utf8From(b, i + 3)
        ELSE IF c >= 240 /\ c <= 244
        THEN /\ has(3)
             /\ IsCont(b[i + 1])
             /\ c = 240 => b[i + 1] >= 144
             /\ c = 244 => b[i + 1] <= 143
             /\ IsCont(b[i + 2])
             /\ IsCont(b[i + 3])
             /\ Utf8From(b, i + 4)
        ELSE FALSE
IsUtf8(b) == Utf8From(b, 1)

\* what a read gives: an error, or a value and the rest of the buffer
ReadErr(e) == [err |-> e, value |-> <<>>, rest |-> <<>>]
ReadOk(v, rest) == [err |-> "", value |-> v, rest |-> rest]

\* read_u32
ReadU32(buffer) ==
    IF Len(buffer) < 4 THEN ReadErr("UnexpectedEof")
    ELSE ReadOk(FromLeBytes(SubSeq(buffer, 1, 4)), Drop(buffer, 4))

\* read_str
ReadStr(buffer) ==
    LET len == ReadU32(buffer)
    IN  IF len.err # "" THEN len
        ELSE IF Shorter(len.rest, len.value) THEN ReadErr("UnexpectedEof")
        ELSE IF ~IsUtf8(SubSeq(len.rest, 1, len.value)) THEN ReadErr("Utf8")
        ELSE ReadOk(SubSeq(len.rest, 1, len.value), Drop(len.rest, len.value))

\* byte_len = (bit_len + 7) / 8, in a usize of 64 bits
ByteLen(bit_len) == bit_len \div 8 + (IF bit_len % 8 = 0 THEN 0 ELSE 1)

\* BitSlice::read_from_section
ReadBitSlice(buffer) ==
    LET bit_len == ReadU32(buffer)
    IN  IF bit_len.err # "" THEN bit_len
        ELSE IF bit_len.value < 0 \/ Len(bit_len.rest) < ByteLen(bit_len.value)
        THEN ReadErr("UnexpectedEof")
        ELSE ReadOk([bytes |-> SubSeq(bit_len.rest, 1, ByteLen(bit_len.value)),
                     bit_len |-> bit_len.value],
                    Drop(bit_len.rest, ByteLen(bit_len.value)))

\* FunctionKind::read_from_section
ReadKind(buffer) ==
    IF Len(buffer) >= 4 /\ SubSeq(buffer, 1, 4) = <<255, 255, 255, 255>>
    THEN ReadOk([kind |-> "Export", module |-> <<>>], Drop(buffer, 4))
    ELSE LET module_name == ReadStr(buffer)
         IN  IF module_name.err # "" THEN module_name
             ELSE ReadOk([kind |-> "Import", module |-> module_name.value], module_name.rest)

\* Function::read_from_section
ReadFromSection(buffer) ==
    LET kind == ReadKind(buffer)
    IN  IF kind.err # "" THEN kind
        ELSE LET name == ReadStr(kind.rest)
             IN  IF name.err # "" THEN name
                 ELSE LET externrefs == ReadBitSlice(name.rest)
                      IN  IF externrefs.err # "" THEN externrefs
                          ELSE ReadOk([kind |-> kind.value.kind, module |-> kind.value.module,
                                       name |-> name.value, externrefs |-> externrefs.value],
                                      externrefs.rest)

\* FunctionKind::write_to_custom_section
WriteKind(function) ==
    IF function.kind = "Export" THEN WriteU32(MAX_WORD)
    ELSE WriteU32(Len(function.module)) \o function.module

\* Function::custom_section
CustomSection(function) ==
    WriteKind(function) \o WriteU32(Len(function.name)) \o function.name
       \o WriteU32(function.externrefs.bit_len) \o function.externrefs.bytes

\* the static DATA_SECTION of every declare_function!, one after another
RECURSIVE SectionOf(_)
SectionOf(fns) ==
    IF fns = <<>> THEN <<>> ELSE CustomSection(Head(fns)) \o SectionOf(Tail(fns))

\* BitSlice::builder::<BYTES>(bit_len) and with_set_bit for the bits of `marked`
BuiltByte(marked, k) ==
    LET bit(j) == IF (8 * k + j) \in marked THEN 2 ^ j ELSE 0
    IN  bit(0) + bit(1) + bit(2) + bit(3) + bit(4) + bit(5) + bit(6) + bit(7)
BuiltSlice(bit_len, marked) ==
    [bytes |-> [k \in 1..ByteLen(bit_len) |-> BuiltByte(marked, k - 1)], bit_len |-> bit_len]

\* one round of the loop of parse_section: the next function is read and
\* pushed, or the error of the read is returned
ParseNext_Partial ==
    /\ rpc = "reading"
    /\ raw_section # <<>>
    /\ LET next_function == ReadFromSection(raw_section)
       IN  IF next_function.err # ""
           THEN /\ rpc' = "done"
                /\ result' = [kind |-> "ok", err |-> "", functions |-> parsed]
                /\ UNCHANGED <<raw_section, parsed>>
           ELSE /\ parsed' = Append(parsed, next_function.value)
                /\ raw_section' = next_function.rest
                /\ UNCHANGED <<rpc, result>>
    /\ UNCHANGED <<section, origin>>
    /\ UNCHANGED <<tvars, pvars>>

ParseNext ==
    /\ rpc = "reading"
    /\ raw_section # <<>>
    /\ LET next_function == ReadFromSection(raw_section)
       IN  IF next_function.err # ""
           THEN /\ rpc' = "failed"
                /\ result' = [kind |-> "err", err |-> next_function.err, functions |-> <<>>]
                /\ UNCHANGED <<raw_section, parsed>>
           ELSE /\ parsed' = Append(parsed, next_function.value)
                /\ raw_section' = next_function.rest
                /\ UNCHANGED <<rpc, result>>
    /\ UNCHANGED <<section, origin>>
    /\ UNCHANGED <<tvars, pvars>>

\* the buffer is empty: Ok(functions)
ParseEnd ==
    /\ rpc = "reading"
    /\ raw_section = <<>>
    /\ rpc' = "done"
    /\ result' = [kind |-> "ok", err |-> "", functions |-> parsed]
    /\ UNCHANGED <<section, raw_section, parsed, origin>>
    /\ UNCHANGED <<tvars, pvars>>

NextCodec == ParseNext \/ ParseEnd

\* names: the letter a and the two bytes of an accented letter; the names that
\* are strings, and every sequence of these bytes
NameBytes == {97, 195, 169}
RawNames == SeqsUpTo(NameBytes, MaxNameLen)
Names == {n \in RawNames : IsUtf8(n)}
\* bit slices of 1..MaxBitLen bits with any bits set, and slices of two bytes
\* with any of the low bits and the last bit set
BitLens == (1..MaxBitLen) \cup {9}
MarkedSets(n) == SUBSET {i \in 0..(n - 1) : i < MaxBitLen \/ i = n - 1}
BuiltSlices == UNION {{BuiltSlice(n, marked) : marked \in MarkedSets(n)} : n \in BitLens}
CodecEntry(kind, mod, name, bits) ==
    [kind |-> kind, module |-> mod, name |-> name, externrefs |-> bits]
\* every entry the macros can declare
Entries ==
    {CodecEntry("Export", <<>>, n, b) : n \in Names, b \in BuiltSlices}
       \cup {CodecEntry("Import", m, n, b) : m \in Names, n \in Names, b \in BuiltSlices}
\* records with a name that is no string
BadNameEntries ==
    {CodecEntry("Import", m, n, BuiltSlice(1, {})) : m \in RawNames, n \in RawNames}
       \cup {CodecEntry("Export", <<>>, n, BuiltSlice(1, {0})) : n \in RawNames}
\* the entries that sections of several entries are made of
SectionEntries ==
    {CodecEntry("Export", <<>>, <<97>>, BuiltSlice(1, {0})),
     CodecEntry("Import", <<195, 169>>, <<>>, BuiltSlice(9, {0, 8})),
     CodecEntry("Import", <<97>>, <<195>>, BuiltSlice(1, {}))}
Sources ==
    {<<e>> : e \in Entries \cup BadNameEntries}
       \cup SeqsUpTo(SectionEntries, MaxSection)

\* the section of a module: the encoding of a list of entries, whole, cut
\* short, or with one byte overwritten
InitCodec ==
    /\ TableIdle
    /\ drop_fn_id = "none"
    /\ ProcIdle
    /\ parsed = <<>>
    /\ rpc = "reading"
    /\ result = NoResult
    /\ \E src \in Sources :
          \/ \E cut \in 0..Len(SectionOf(src)) :
                /\ section = SubSeq(SectionOf(src), 1, cut)
                /\ origin = [kind |-> "encoded", src |-> src, cut |-> cut]
          \/ /\ src \in SeqsUpTo(SectionEntries, MaxSection)
             /\ \E at \in 1..Len(SectionOf(src)), byte \in {0, 128, 255} :
                   /\ section = [SectionOf(src) EXCEPT ![at] = byte]
                   /\ origin = [kind |-> "overwritten", src |-> src, cut |-> at]
    /\ raw_section = section

SpecCodec == InitCodec /\ [][NextCodec]_vars

\* the names of an entry are strings
NameOk(e) == IsUtf8(e.module) /\ IsUtf8(e.name)
Whole == origin.kind = "encoded" /\ origin.cut = Len(SectionOf(origin.src))
\* the offsets of the encoding at which an entry ends
EndOf(src, i) == Len(SectionOf(SubSeq(src, 1, i)))
Boundaries(src) == {EndOf(src, i) : i \in 0..Len(src)}

\* C19: for entries with names that are strings and slices of bit_len >= 1,
\* reading the encoding of a list gives back the entries in order, each read
\* consuming the bytes of one entry, and the buffer is exhausted at the end.
C19_RoundTrip ==
    (Whole /\ \A i \in 1..Len(origin.src) : NameOk(origin.src[i])) =>
        /\ rpc # "failed"
        /\ Len(parsed) <= Len(origin.src)
        /\ parsed = SubSeq(origin.src, 1, Len(parsed))
        /\ raw_section = SectionOf(SubSeq(origin.src, Len(parsed) + 1, Len(origin.src)))
        /\ rpc = "done" =>
              /\ result = [kind |-> "ok", err |-> "", functions |-> origin.src]
              /\ raw_section = <<>>

\* an import with a module name and a slice of two bytes, then an export
C19_Witness ==
    /\ Whole
    /\ rpc = "done"
    /\ Len(result.functions) = 2
    /\ result.functions[1] = CodecEntry("Import", <<195, 169>>, <<>>, BuiltSlice(9, {0, 8}))
    /\ result.functions[1].externrefs.bytes = <<1, 1>>
    /\ result.functions[2] = CodecEntry("Export", <<>>, <<97>>, BuiltSlice(1, {0}))
    /\ section # <<>>

\* the section ends inside an entry; it holds a whole entry whose name is no string
EndsInside == origin.kind = "encoded" /\ origin.cut \notin Boundaries(origin.src)
HoldsBadName ==
    /\ origin.kind = "encoded"
    /\ \E i \in 1..Len(origin.src) :
          ~NameOk(origin.src[i]) /\ EndOf(origin.src, i) <= origin.cut

\* C20: parse_section returns the entries of the whole buffer or an error of
\* reading and no entry; a section that ends inside an entry or that holds a
\* name that is not UTF-8 gives the error.
C20_Malformed ==
    /\ rpc = "done" =>
          /\ raw_section = <<>>
          /\ result.kind = "ok"
          /\ SectionOf(result.functions) = section
    /\ rpc = "failed" =>
          /\ result.kind = "err"
          /\ result.err \in {"UnexpectedEof", "Utf8"}
          /\ result.functions = <<>>
    /\ (rpc \in {"done", "failed"} /\ (EndsInside \/ HoldsBadName)) => rpc = "failed"
    /\ (rpc \in {"done", "failed"} /\ EndsInside
            /\ \A i \in 1..Len(origin.src) : NameOk(origin.src[i])) =>
          result.err = "UnexpectedEof"

\* a section of two entries cut inside the bytes of the second slice, after
\* the first entry was read
C20_Witness ==
    /\ rpc = "failed"
    /\ EndsInside
    /\ Len(origin.src) = 2
    /\ Len(parsed) = 1
    /\ origin.cut = Len(SectionOf(origin.src)) - 1
    /\ origin.src[2].externrefs.bit_len = 9
    /\ result = [kind |-> "err", err |-> "UnexpectedEof", functions |-> <<>>]

\* ------------------------------------------------------------------------
\* Handles, size and the search loop of the table machine
\* ------------------------------------------------------------------------
\* C21: insert stores only into a null slot or a new one: the index it
\* returns for a reference is none of the live handles, and every live
\* handle keeps the reference it had.
C21_NoAliasing ==
    /\ (pc = "ins_store" /\ free_idx # TableSize(table)) =>
          InBounds(table, free_idx) /\ TableGet(table, free_idx) = NULL
    /\ (Completed("insert") /\ op.arg # NULL /\ res.kind = "ret") =>
          /\ res.val \notin live
          /\ \A h \in live :
                /\ InBounds(table, h)
                /\ TableGet(table, h) # NULL
                /\ TableGet(table, h) = TableGet(pre, h)

\* handles 0 and 2 are live, the slot between them is reused
C21_Witness ==
    /\ Completed("insert") /\ op.arg # NULL /\ res = Ret(1)
    /\ live = {0, 2}
    /\ TableGet(table, 0) # NULL /\ TableGet(table, 2) # NULL

\* C22: the table never shrinks, its size is the largest number of slots
\* that held a reference at once, and when no handle is live every slot is
\* null while the size stays at that number.
C22_SizeIsPeak ==
    /\ Len(table) >= Len(pre)
    /\ Len(table) = NextPeak
    /\ (pc = "idle" /\ NextLive = {}) => \A k \in 1..Len(table) : table[k] = NULL

C22_Witness ==
    /\ Completed("drop") /\ res.kind = "ret"
    /\ NextLive = {}
    /\ Len(table) = 3 /\ NextPeak = 3
    /\ \A k \in 1..Len(table) : table[k] = NULL

\* the table machine with the loop of insert running to its end
SpecLoop == InitTable /\ [][NextTable]_vars /\ WF_vars(InsertLoop)

\* the loop is entered with free_idx on a slot of the table, and has run at
\* most table.size times
LoopBounds ==
    /\ pc = "ins_loop" => (InBounds(table, free_idx) /\ iters < TableSize(table))
    /\ pc \in {"ins_loop", "ins_store"} => (free_idx >= 0 /\ free_idx <= TableSize(table))
    /\ iters <= TableSize(pre)
    /\ (Completed("insert") /\ res = Trap) => (~HasNull(pre) /\ Len(pre) = TableLimit)

\* C29: the search loop of insert ends after at most table.size iterations,
\* free_idx stays within 0..table.size and every table.get of the loop is in
\* bounds.
C29_LoopTerminates == [](LoopBounds) /\ ((pc = "ins_loop") ~> (pc # "ins_loop"))

\* the loop has looked at every slot of a full table
C29_Witness ==
    /\ pc = "ins_store"
    /\ op.fn = "insert"
    /\ TableSize(table) = 3
    /\ iters = 3
    /\ free_idx = 3

\* ------------------------------------------------------------------------
\* Detection of the stores of a call result
\* ------------------------------------------------------------------------
\* calls of get (which returns a reference) and of insert (which does not),
\* stores to two locals
DetectOps == {Call(GET_ID), Call(INSERT_ID), LocalSet(1), LocalTee(2), Other}
DetectBodies ==
    {Body(e, <<>>) : e \in SeqsUpTo(DetectOps, MaxFlatLen)} \cup Bodies(DetectOps)

\* FN_B has the body behind a guard
InitDetect ==
    /\ TableIdle
    /\ drop_fn_id = "none"
    /\ \E b \in DetectBodies :
          StartOf(ModuleOf(AllPlaceholders, Sig(<<>>, <<>>), Sig(<<>>, <<>>), Sig(<<>>, <<>>),
                           Body(<<Other>>, <<>>), Body(<<Call(GUARD_ID)>> \o b.entry, b.nested)),
                  <<ImportEntry("env", "imp", <<>>)>>, DefaultProcessor)

SpecDetect == InitDetect /\ [][NextProc]_vars

\* instruction k of seq is a store that follows a call in `calls`, directly
\* or through local.tee instructions that follow it
RECURSIVE FollowsCall(_, _, _)
FollowsCall(seq, k, calls) ==
    /\ IsStore(seq[k])
    /\ k > 1
    /\ \/ seq[k - 1] \in calls
       \/ seq[k - 1].op = "local.tee" /\ FollowsCall(seq, k - 1, calls)
Redirected(seq, calls) == {k \in 1..Len(seq) : FollowsCall(seq, k, calls)}
\* the stores of old are redirected in new exactly at the positions of R
RedirectsAt(old, new, R) ==
    /\ Len(new) = Len(old)
    /\ \A k \in 1..Len(old) :
          IF k \in R
          THEN new[k].op = old[k].op /\ IsNew(new[k].arg)
          ELSE IsStore(old[k]) => new[k] = old[k]
NewLocalsOf(seq) == {seq[k].arg : k \in {j \in 1..Len(seq) : IsStore(seq[j]) /\ IsNew(seq[j].arg)}}
Pairs(new_locals) == {new_locals[k] : k \in 1..Len(new_locals)}

\* C23: a local.set or local.tee is redirected to a new local exactly when, in
\* its own sequence, it follows a call of a function returning a reference,
\* directly or through redirected local.tee instructions; every redirected
\* store has a new local of its own, recorded with the local it replaces, and
\* no other local is added.
C23_Detection ==
    /\ (ppc = "local_fns" /\ LocalFns[st.cursor] = FN_B) =>
          LET fn == module.funcs[FN_B]
              calls == {Call(g) : g \in st.functions_returning_ref}
              d == DetectCalls(fn, st.functions_returning_ref, module.locals)
              Re == Redirected(fn.entry, calls)
              Rn == Redirected(fn.nested, calls)
          IN  /\ RedirectsAt(fn.entry, d.fn.entry, Re)
              /\ RedirectsAt(fn.nested, d.fn.nested, Rn)
              /\ Len(d.new_locals) = Cardinality(Re) + Cardinality(Rn)
              /\ Cardinality(Pairs(d.new_locals)) = Len(d.new_locals)
              /\ Pairs(d.new_locals) =
                    {<<d.fn.entry[k].arg, fn.entry[k].arg>> : k \in Re}
                       \cup {<<d.fn.nested[k].arg, fn.nested[k].arg>> : k \in Rn}
              /\ d.locals = module.locals + Len(d.new_locals)
    /\ (ppc = "done" /\ outcome.kind = "ok") =>
          LET old == WithoutGuards(input.funcs[FN_B])
              new == module.funcs[FN_B]
              Re == Redirected(old.entry, {Call(GET_ID)})
              Rn == Redirected(old.nested, {Call(GET_ID)})
          IN  /\ RedirectsAt(old.entry, new.entry, Re)
              /\ RedirectsAt(old.nested, new.nested, Rn)
              /\ Cardinality(NewLocalsOf(new.entry) \cup NewLocalsOf(new.nested))
                    = Cardinality(Re) + Cardinality(Rn)
              /\ module.locals = Cardinality(Re) + Cardinality(Rn)

\* the call before the block does not reach the store inside the block
C23_NoCarry ==
    /\ ppc = "done" /\ outcome.kind = "ok"
    /\ input.funcs[FN_B].entry = <<Call(GUARD_ID), Call(GET_ID), Block>>
    /\ input.funcs[FN_B].nested = <<LocalSet(1), Call(GET_ID)>>
    /\ module.funcs[FN_B].nested[1] = LocalSet(1)
    /\ module.locals = 0

\* get; local.tee 2; local.set 1; local.set 1 gives two new locals
C23_Witness ==
    /\ ppc = "done" /\ outcome.kind = "ok"
    /\ input.funcs[FN_B].entry =
          <<Call(GUARD_ID), Call(GET_ID), LocalTee(2), LocalSet(1), LocalSet(1)>>
    /\ module.funcs[FN_B].entry =
          <<Call(NEW_GET), LocalTee(NewLocal(1)), LocalSet(NewLocal(2)), LocalSet(1)>>
    /\ module.locals = 2

\* ------------------------------------------------------------------------
\* The functions returning a reference
\* ------------------------------------------------------------------------
\* signatures of i32 parameters and results
I32Sigs == {Sig([i \in 1..p |-> I32], [i \in 1..r |-> I32]) : p \in 0..MaxParams, r \in 0..MaxResults}
\* the body of FN_B: a guard, then a store after a call of get (when the
\* module imports it), of env.imp, of no call, and of FN_A
ReturnsBody(get) ==
    Body(<<Call(GUARD_ID)>>
            \o (IF get = "func" THEN <<Call(GET_ID), LocalSet(1)>> ELSE <<>>)
            \o <<Call(IMP_ID), LocalSet(1), Other, LocalSet(1), Call(FN_A), LocalSet(1)>>,
         <<>>)

\* one catalog entry, for env.imp, for the local function "exp" or for the
\* export of env.imp, over every signature of i32 values and every bit slice;
\* the get placeholder is imported or not
InitReturns ==
    /\ TableIdle
    /\ drop_fn_id = "none"
    /\ \E sig \in I32Sigs, bits \in BitSlices, get \in {"absent", "func"} :
          \E entry \in {ImportEntry("env", "imp", bits), ExportEntry("exp", bits),
                        ExportEntry("reexp", bits)} :
             StartOf(ModuleOf([insert |-> "absent", get |-> get, drop |-> "absent",
                               guard |-> "func"],
                              sig, sig, Sig(<<>>, <<>>), Body(<<Other>>, <<>>), ReturnsBody(get)),
                     <<entry>>, DefaultProcessor)

SpecReturns == InitReturns /\ [][NextProc]_vars

ImportsGet ==
    \E k \in 1..Len(input.imports) :
        /\ input.imports[k].module = "externref"
        /\ input.imports[k].name = "get"
        /\ input.imports[k].kind = "Function"
\* the functions of the resolved catalog entries with one result and the
\* last bit of the entry set
LastBitSet(bits) == BitLen(bits) > 0 /\ bits[BitLen(bits)]
CatalogReturning ==
    {st.function_ids[i] : i \in {j \in 1..Len(functions) :
        /\ st.function_ids[j] # None
        /\ Len(input.funcs[st.function_ids[j]].results) = 1
        /\ LastBitSet(functions[j].externrefs)}}
\* the loop over the catalog has ended
CatalogDone == ppc \in {"local_fns", "gc", "done"} /\ Len(st.function_ids) = Len(functions)

\* C24: once the catalog is applied, the functions returning a reference are
\* the replacement of get, when the get placeholder is imported, and the
\* functions of the resolved entries that have one result and the last bit of
\* ref_bits set; a store is redirected only after a call of one of them.
C24_ReturningSet ==
    /\ CatalogDone =>
          st.functions_returning_ref =
             (IF ImportsGet THEN {NEW_GET} ELSE {}) \cup CatalogReturning
    /\ (CatalogDone /\ ppc = "done" /\ outcome.kind = "ok") =>
          LET old == WithoutGuards(input.funcs[FN_B]).entry
              calls == (IF ImportsGet THEN {Call(GET_ID)} ELSE {})
                          \cup {Call(g) : g \in CatalogReturning}
          IN  RedirectsAt(old, module.funcs[FN_B].entry, Redirected(old, calls))

\* get and env.imp return a reference, FN_A does not
C24_Witness ==
    /\ ppc = "done" /\ outcome.kind = "ok"
    /\ st.functions_returning_ref = {NEW_GET, IMP_ID}
    /\ functions = <<ImportEntry("env", "imp", <<FALSE, TRUE>>)>>
    /\ module.funcs[FN_B].entry =
          <<Call(NEW_GET), LocalSet(NewLocal(1)), Call(IMP_ID), LocalSet(NewLocal(2)),
            Other, LocalSet(1), Call(FN_A), LocalSet(1)>>

\* ------------------------------------------------------------------------
\* The position of an accepted guard
\* ------------------------------------------------------------------------
\* the first function has a flat body over calls of the guard and of the
\* insert placeholder, global.set and other instructions
InitPlacement ==
    /\ TableIdle
    /\ drop_fn_id = "none"
    /\ \E e \in SeqsUpTo(GuardOps, MaxFlatLen) :
          StartOf(ModuleOf(AllPlaceholders, Sig(<<>>, <<>>), Sig(<<>>, <<>>), Sig(<<>>, <<>>),
                           Body(e, <<>>), Body(<<Other>>, <<>>)),
                  <<ImportEntry("env", "imp", <<>>)>>, DefaultProcessor)

SpecPlacement == InitPlacement /\ [][NextProc]_vars

\* the guard at index k of the entry sequence e is the first instruction, or
\* has before it nothing but a stack-pointer adjustment: instructions that are
\* neither calls nor guards, the last of them a global.set
AtStart(e, k) ==
    \/ k = 1
    \/ /\ e[k - 1] = GlobalSet
       /\ \A j \in 1..(k - 1) : e[j] \in {GlobalSet, Other}

\* C25: a function of guarded_fns had a guard call as its first instruction,
\* with nothing before it but an optional stack-pointer adjustment.
C25_AsStated ==
    GuardsPassed =>
        \A f \in st.guarded_fns :
            \E k \in GuardIn(input.funcs[f].entry) : AtStart(input.funcs[f].entry, k)

\* the guard follows a call of the insert placeholder and a global.set
C25_Witness ==
    /\ ppc = "done"
    /\ input.funcs[FN_A].entry = <<Call(INSERT_ID), GlobalSet, Call(GUARD_ID)>>
    /\ module.funcs[FN_A].entry = <<Call(NEW_INSERT), GlobalSet>>
    /\ FN_A \in st.guarded_fns

\* ------------------------------------------------------------------------
\* The order of substitution and guard verification
\* ------------------------------------------------------------------------
OrderOps == {Call(GUARD_ID), Call(INSERT_ID), Call(GET_ID), Call(DROP_ID), Other}
\* both local functions have a flat body of guards, placeholder calls and
\* other instructions (the second one calls no placeholder but insert)
InitOrder ==
    /\ TableIdle
    /\ drop_fn_id = "none"
    /\ \E a \in SeqsUpTo(OrderOps, MaxEntryLen),
          b \in SeqsUpTo({Call(GUARD_ID), Call(INSERT_ID), Other}, MaxEntryLen) :
          StartOf(ModuleOf(AllPlaceholders, Sig(<<>>, <<>>), Sig(<<>>, <<>>), Sig(<<>>, <<>>),
                           Body(a, <<>>), Body(b, <<>>)),
                  <<ImportEntry("env", "imp", <<>>)>>, DefaultProcessor)

SpecOrder == InitOrder /\ [][NextProc]_vars

\* remove_guards has run on f
Verified(f) ==
    \/ ppc = "replace_calls" /\ FnIndex(f) < st.cursor
    \/ GuardsPassed
    \/ GuardsFailed /\ FnIndex(f) <= FnIndex(outcome.fn)
\* the calls of f to the placeholders insert, get and drop
PlaceholderCalls(f) ==
    {k \in 1..Len(module.funcs[f].entry) :
        module.funcs[f].entry[k] \in {Call(INSERT_ID), Call(GET_ID), Call(DROP_ID)}}

\* the claim as stated: once the guards of some function are verified, no
\* local function has a call to a placeholder
C26_AsStated ==
    (\E f \in FnSet : Verified(f)) => \A g \in FnSet : PlaceholderCalls(g) = {}

\* C26 (amended): the calls of a local function to the placeholders are
\* substituted before the guards of that function are verified.
C26_SubstitutedFirst ==
    \A f \in FnSet : Verified(f) => PlaceholderCalls(f) = {}

\* the guard of the first function is verified and removed while the second
\* function still calls the placeholder
C26_Witness ==
    /\ ppc = "replace_calls"
    /\ st.cursor = 2
    /\ input.funcs[FN_A].entry = <<Call(GUARD_ID), Call(INSERT_ID)>>
    /\ module.funcs[FN_A].entry = <<Call(NEW_INSERT)>>
    /\ st.guarded_fns = {FN_A}
    /\ module.funcs[FN_B].entry = <<Call(GUARD_ID), Call(INSERT_ID)>>

\* ------------------------------------------------------------------------
\* The order of type patching and scanning
\* ------------------------------------------------------------------------
\* the entries for env.imp and for the exports of the two local functions,
\* with a bit slice of the length of BasicSig
ScanEntries ==
    UNION {{ImportEntry("env", "imp", b), ExportEntry("exp", b), ExportEntry("exp2", b)} :
           b \in [1..(Len(BasicSig.params) + Len(BasicSig.results)) -> BOOLEAN]}
\* catalogs of up to MaxCatalog entries; the first local function stores the
\* result of a call of the second one, which stores that of a call of env.imp
InitScan ==
    /\ TableIdle
    /\ drop_fn_id = "none"
    /\ \E catalog \in SeqsUpTo(ScanEntries, MaxCatalog) :
          StartOf(ModuleOf(NoPlaceholders, BasicSig, BasicSig, BasicSig,
                           Body(<<Call(FN_B), LocalSet(1)>>, <<>>),
                           Body(<<Call(IMP_ID), LocalSet(1)>>, <<>>)),
                  catalog, DefaultProcessor)

SpecScan == InitScan /\ [][NextProc]_vars

\* every position that bits marks is a reference in the type of f
PatchedBy(f, bits) ==
    \A p \in 0..(Arity(module.funcs[f]) - 1) :
        IsSet(bits, p) =>
            TypeAt(module.funcs[f].params, module.funcs[f].results, p) = EXTERNREF
\* the loop over the local functions runs or has ended
Scanning == ppc \in {"local_fns", "gc", "done"} /\ Len(st.function_ids) = Len(functions)
\* the loop over the local functions has dealt with f
Scanned(f) == ppc \in {"gc", "done"} \/ (ppc = "local_fns" /\ FnIndex(f) < st.cursor)

\* the claim as stated: when the scan of the local functions starts, the type
\* of every catalog function is patched
C27_AsStated ==
    Scanning =>
        \A i \in 1..Len(functions) : Resolved(i) =>
            PatchedBy(st.function_ids[i], functions[i].externrefs)

\* C27 (amended): the type of every imported catalog function is patched
\* before any local function body is scanned; the type of a local function
\* with a catalog entry is patched at its own turn in the scan and is the
\* input type until then; the set of the functions returning a reference does
\* not change during the scan.
C27_PatchOrder ==
    /\ [](Scanning =>
            /\ \A i \in 1..Len(functions) :
                  (Resolved(i) /\ functions[i].kind = "Import") =>
                      PatchedBy(st.function_ids[i], functions[i].externrefs)
            /\ \A f \in FnSet :
                  LET e == FunctionsById(st.function_ids, f)
                  IN  e # 0 =>
                        IF Scanned(f)
                        THEN PatchedBy(f, functions[e].externrefs)
                        ELSE /\ module.funcs[f].params = input.funcs[f].params
                             /\ module.funcs[f].results = input.funcs[f].results)
    /\ [][ppc = "local_fns" => st'.functions_returning_ref = st.functions_returning_ref]_vars

\* the first local function is scanned, and its store redirected, while the
\* type of the second one, which the catalog marks, is still the input type
C27_Witness ==
    /\ ppc = "local_fns"
    /\ st.cursor = 2
    /\ functions = <<ExportEntry("exp", <<FALSE, FALSE>>), ExportEntry("exp2", <<TRUE, TRUE>>)>>
    /\ module.funcs[FN_A].entry = <<Call(FN_B), LocalSet(NewLocal(1))>>
    /\ module.funcs[FN_B].params = <<I32>>
    /\ module.funcs[FN_B].results = <<I32>>
    /\ st.functions_returning_ref = {FN_B}

\* ------------------------------------------------------------------------
\* References among several results
\* ------------------------------------------------------------------------
\* the results of the function of the entry that the entry marks
MarkedResults ==
    {j \in 0..(Len(EntrySig.results) - 1) :
        IsSet(functions[1].externrefs, Len(EntrySig.params) + j)}
\* a marked result that is not the last one, or several marked results
MarksBadResult ==
    \/ \E j \in MarkedResults : j # Len(EntrySig.results) - 1
    \/ Cardinality(MarkedResults) > 1

\* C28: an entry marking a result other than the last one, or more than one
\* result, is rejected with ArityMismatch or UnexpectedArgumentType.
C28_AsStated ==
    (EndedSingle /\ MarksBadResult) =>
        /\ ppc = "failed"
        /\ outcome.kind = "err"
        /\ outcome.err \in {"UnexpectedArity", "UnexpectedType"}

\* the first of two i32 results is marked, and patched
C28_Witness ==
    /\ EndedSingle
    /\ ppc = "done"
    /\ outcome.kind = "ok"
    /\ functions = <<ImportEntry("env", "imp", <<FALSE, TRUE, FALSE>>)>>
    /\ input.funcs[IMP_ID].results = <<I32, I32>>
    /\ module.funcs[IMP_ID].results = <<EXTERNREF, I32>>
    /\ st.functions_returning_ref = {}

\* ------------------------------------------------------------------------
\* Repeated catalog entries
\* ------------------------------------------------------------------------
\* process has ended for a catalog that lists one Import entry several times
EndedRepeated ==
    /\ ppc \in {"done", "failed"}
    /\ Len(functions) >= 2
    /\ functions[1].kind = "Import"
    /\ \A i \in 1..Len(functions) : functions[i] = functions[1]
\* what a catalog that lists the entry once yields for the import
PatchedOnce ==
    PatchTypeInner(functions[1], input.funcs[IMP_ID].params, input.funcs[IMP_ID].results)
SameAsOnce ==
    /\ ppc = "done"
    /\ outcome.kind = "ok"
    /\ PatchedOnce.kind = "ok"
    /\ module.funcs[IMP_ID].params = PatchedOnce.params
    /\ module.funcs[IMP_ID].results = PatchedOnce.results
\* the positions that the repeated entry marks
Marked == {i \in 0..(BitLen(functions[1].externrefs) - 1) : IsSet(functions[1].externrefs, i)}
FirstMarked == CHOOSE i \in Marked : \A j \in Marked : i <= j

\* the claim as stated: the catalog is processed successfully and the import
\* has the signature that one listing of the entry gives
C30_AsStated ==
    EndedRepeated => SameAsOnce

\* C30 (amended): a catalog that lists several times the same import entry is
\* processed as one that lists it once when the entry marks no position; when
\* it marks a position, processing fails at the second listing, with
\* UnexpectedArgumentType for a reference found when the first marked position
\* is a parameter.
C30_Repeated ==
    EndedRepeated =>
        IF Marked = {}
        THEN SameAsOnce
        ELSE /\ ppc = "failed"
             /\ st.cursor = 2
             /\ FirstMarked < Len(input.funcs[IMP_ID].params) =>
                   /\ outcome.kind = "err"
                   /\ outcome.err = "UnexpectedType"
                   /\ outcome.info = <<"Arg", FirstMarked, EXTERNREF>>

\* the entry marks the parameter: the second listing finds a reference there
C30_Witness ==
    /\ EndedRepeated
    /\ functions = <<ImportEntry("env", "imp", <<TRUE, FALSE>>),
                     ImportEntry("env", "imp", <<TRUE, FALSE>>)>>
    /\ ppc = "failed"
    /\ outcome.err = "UnexpectedType"
    /\ module.funcs[IMP_ID].params = <<EXTERNREF>>

====
